---- MODULE Spec2Model ----
(***************************************************************************)
(* Model of the audio response pipeline of SovaServer:                     *)
(*   GeminiLiveService  (fragment accumulation, completion timer, merge)   *)
(*   VoiceHandlerLive   (chunk sizing, splitting, multiport delivery,      *)
(*                       sequential fallback, user interruption)           *)
(* Two specifications share the module:                                    *)
(*   SpecCodec - the byte-level pure functions (WAV framing, base64,       *)
(*               splitAudioIntoChunks, combineAudioChunks) applied to      *)
(*               inputs drawn from bounded sets;                           *)
(*   Spec      - the event-loop state machine: one action per macrotask    *)
(*               (socket event, upstream message, timer callback), each    *)
(*               including the microtasks it triggers.                     *)
(***************************************************************************)
EXTENDS Integers, Sequences, FiniteSets, TLC

Min(a, b) == IF a < b THEN a ELSE b
Max(a, b) == IF a > b THEN a ELSE b

(***************************************************************************)
(* Bounds of the byte-level inputs.                                        *)
(***************************************************************************)
MaxData == 4        \* longest raw sample region of a split input, in bytes
MaxStep == 3        \* largest number of sample bytes per chunk
MaxFragData == 2    \* longest raw payload of one merged fragment, in bytes
MaxMerge == 2       \* most fragments merged by combineAudioChunks
MaxLaneChunks == 13 \* most chunks distributed over the lanes
MaxLanes == 5       \* most lanes they are distributed over
MaxDurationSteps == 500   \* longest response given to calculateOptimalChunkSize
DurationStepBytes == 4800 \* the step between two such responses (50 ms of samples)
ByteVals == {0, 65, 255}

(***************************************************************************)
(* Buffers are sequences of bytes; base64 strings are sequences of         *)
(* sextets, with PAD for '='.                                              *)
(***************************************************************************)
PAD == 64

RECURSIVE toBase64(_)
toBase64(b) ==
  IF Len(b) = 0 THEN <<>>
  ELSE IF Len(b) = 1 THEN
    << b[1] \div 4, (b[1] % 4) * 16, PAD, PAD >>
  ELSE IF Len(b) = 2 THEN
    << b[1] \div 4, (b[1] % 4) * 16 + (b[2] \div 16), (b[2] % 16) * 4, PAD >>
  ELSE
    << b[1] \div 4, (b[1] % 4) * 16 + (b[2] \div 16),
       (b[2] % 16) * 4 + (b[3] \div 64), b[3] % 64 >>
      \o toBase64(SubSeq(b, 4, Len(b)))

RECURSIVE BufferFromBase64(_)
BufferFromBase64(s) ==
  IF Len(s) < 2 \/ s[1] = PAD \/ s[2] = PAD THEN <<>>
  ELSE IF Len(s) < 3 \/ s[3] = PAD THEN
    << s[1] * 4 + (s[2] \div 16) >>
  ELSE IF Len(s) < 4 \/ s[4] = PAD THEN
    << s[1] * 4 + (s[2] \div 16), (s[2] % 16) * 16 + (s[3] \div 4) >>
  ELSE
    << s[1] * 4 + (s[2] \div 16), (s[2] % 16) * 16 + (s[3] \div 4),
       (s[3] % 4) * 64 + s[4] >>
      \o BufferFromBase64(SubSeq(s, 5, Len(s)))

\* buf.slice(from, to): zero-based, end exclusive, clamped to the buffer
Slice(buf, from, to) == SubSeq(buf, from + 1, Min(to, Len(buf)))

UInt32LE(v) ==
  << v % 256, (v \div 256) % 256, (v \div 65536) % 256, (v \div 16777216) % 256 >>
UInt16LE(v) == << v % 256, (v \div 256) % 256 >>

\* buf.writeUInt32LE(v, off)
writeUInt32LE(buf, v, off) ==
  [i \in 1..Len(buf) |->
     IF i > off /\ i <= off + 4 THEN UInt32LE(v)[i - off] ELSE buf[i]]

readUInt32LE(buf, off) ==
  buf[off + 1] + 256 * buf[off + 2] + 65536 * buf[off + 3] + 16777216 * buf[off + 4]

WavHeaderLen == 44
RIFF == << 82, 73, 70, 70 >>
WAVE == << 87, 65, 86, 69 >>
FMT  == << 102, 109, 116, 32 >>
DATA == << 100, 97, 116, 97 >>

createWAVFile(audioData, sampleRate, channels, bitsPerSample) ==
  RIFF \o UInt32LE(36 + Len(audioData)) \o WAVE
       \o FMT \o UInt32LE(16) \o UInt16LE(1) \o UInt16LE(channels)
       \o UInt32LE(sampleRate)
       \o UInt32LE(sampleRate * channels * (bitsPerSample \div 8))
       \o UInt16LE(channels * (bitsPerSample \div 8)) \o UInt16LE(bitsPerSample)
       \o DATA \o UInt32LE(Len(audioData))
       \o audioData

\* the RIFF/WAVE test made by splitAudioIntoChunks and combineAudioChunks
isWAV(buf) ==
  /\ Len(buf) >= 12
  /\ SubSeq(buf, 1, 4) = RIFF
  /\ SubSeq(buf, 9, 12) = WAVE

\* processAudioResponse: upstream LINEAR16 PCM, base64, framed as 48 kHz mono WAV
processAudioResponse(audioData) ==
  toBase64(createWAVFile(BufferFromBase64(audioData), 48000, 1, 16))

\* the loop  for (i = 0; i < len; i += step) slice(i, min(i + step, len))
RECURSIVE ChunkRanges(_, _, _)
ChunkRanges(i, len, step) ==
  IF i < len
  THEN << << i, Min(i + step, len) >> >> \o ChunkRanges(i + step, len, step)
  ELSE <<>>

CopyHeaderBlank(header) == [i \in 1..WavHeaderLen |-> 0]

\* Buffer.alloc(44) followed by header.copy(chunkHeader)
CopyHeader(header) ==
  [i \in 1..WavHeaderLen |-> IF i <= Len(header) THEN header[i] ELSE 0]

DefaultChunkSize == 96000   \* targetChunkDuration * bytesPerSecond

\* whether the chunking loop of splitAudioIntoChunks ends: its index advances
\* by the chunk size (less the header for WAV) while it is below the length
splitReturns(audioData, chunkSize) ==
  \/ audioData = <<>>
  \/ LET size == IF chunkSize = 0 THEN DefaultChunkSize ELSE chunkSize
         audioBuffer == BufferFromBase64(audioData)
     IN IF isWAV(audioBuffer)
        THEN Len(audioBuffer) <= WavHeaderLen \/ size - WavHeaderLen > 0
        ELSE Len(audioBuffer) = 0 \/ size > 0

splitAudioIntoChunks(audioData, chunkSize) ==
  IF audioData = <<>> THEN <<>>
  ELSE
    LET size == IF chunkSize = 0 THEN DefaultChunkSize ELSE chunkSize
        audioBuffer == BufferFromBase64(audioData)
    IN IF isWAV(audioBuffer)
       THEN LET header == Slice(audioBuffer, 0, WavHeaderLen)
                data == Slice(audioBuffer, WavHeaderLen, Len(audioBuffer))
                r == ChunkRanges(0, Len(data), size - WavHeaderLen)
            IN [k \in 1..Len(r) |->
                  LET dataChunk == Slice(data, r[k][1], r[k][2])
                      chunkHeader ==
                        writeUInt32LE(
                          writeUInt32LE(CopyHeader(header), 36 + Len(dataChunk), 4),
                          Len(dataChunk), 40)
                  IN toBase64(chunkHeader \o dataChunk)]
       ELSE LET r == ChunkRanges(0, Len(audioBuffer), size)
            IN [k \in 1..Len(r) |->
                  toBase64(Slice(audioBuffer, r[k][1], r[k][2]))]

RECURSIVE ConcatAll(_)
ConcatAll(ss) == IF ss = <<>> THEN <<>> ELSE Head(ss) \o ConcatAll(Tail(ss))

\* GeminiLiveService.combineAudioChunks
combineAudioChunks(chunks) ==
  IF Len(chunks) = 0 THEN <<>>
  ELSE IF Len(chunks) = 1 THEN chunks[1]
  ELSE
    LET firstChunk == BufferFromBase64(chunks[1])
    IN IF isWAV(firstChunk)
       THEN LET header == Slice(firstChunk, 0, WavHeaderLen)
                combinedData ==
                  ConcatAll([k \in 1..Len(chunks) |->
                    Slice(BufferFromBase64(chunks[k]), WavHeaderLen,
                          Len(BufferFromBase64(chunks[k])))])
                newHeader ==
                  writeUInt32LE(
                    writeUInt32LE(CopyHeader(header), 36 + Len(combinedData), 4),
                    Len(combinedData), 40)
            IN toBase64(newHeader \o combinedData)
       ELSE toBase64(ConcatAll([k \in 1..Len(chunks) |-> BufferFromBase64(chunks[k])]))

(***************************************************************************)
(* VoiceHandlerLive.chunkingConfig / multiportConfig.  Durations are kept  *)
(* in milliseconds so that the arithmetic stays in the integers.           *)
(***************************************************************************)
bytesPerSecond == 96000
minChunkDurationMs == 500
maxChunkDurationMs == 3000
maxLatencyTarget == 1500
maxPorts == 4
\* delays in units of TimeUnit milliseconds
TimeUnit == 5
chunkDelay == 5 \div TimeUnit
laneDelay == 5 \div TimeUnit
sequentialDelay == 25 \div TimeUnit
timeoutDuration == 2000
requestsPerMinute == 10
timeoutUnits == timeoutDuration \div TimeUnit
GapMs == timeoutDuration - TimeUnit   \* a pause of upstream between two fragments
StallUnits == timeoutUnits    \* how long a busy event loop keeps timers waiting

RECURSIVE GCD(_, _)
GCD(a, b) == IF b = 0 THEN a ELSE GCD(b, a % b)

\* Math.round of the non-negative rational n / d
RoundDiv(n, d) == (2 * n + d) \div (2 * d)

(***************************************************************************)
(* In Spec an audio buffer is kept by its sizes: a 44-byte WAV header      *)
(* carrying sampleRate (mono, 16 bit) and dataLen bytes of samples.        *)
(***************************************************************************)
\* estimateAudioDuration, as the pair <<bytes, bytes per second>>
estimateAudioDuration(audio) == << audio.dataLen, audio.sampleRate * 1 * (16 \div 8) >>

\* round(k-th part of the duration * bytesPerSecond), without 32-bit overflow
DurationPartBytes(audio, k) ==
  LET dur == estimateAudioDuration(audio)
      g == GCD(bytesPerSecond, dur[2])
  IN RoundDiv(dur[1] * (bytesPerSecond \div g), k * (dur[2] \div g))

minChunkSize == (minChunkDurationMs * bytesPerSecond) \div 1000
maxChunkSize == (maxChunkDurationMs * bytesPerSecond) \div 1000

\* finalChunkSize: the size of the duration band, clamped
bandedChunkSize(audio) ==
  LET dur == estimateAudioDuration(audio)
      D == dur[1]
      B == dur[2]
      chunkSizeBytes ==
        IF D <= 2 * B THEN Max(RoundDiv(500 * bytesPerSecond, 1000), DurationPartBytes(audio, 3))
        ELSE IF D <= 5 * B THEN Max(RoundDiv(1000 * bytesPerSecond, 1000), DurationPartBytes(audio, 4))
        ELSE IF D <= 10 * B THEN RoundDiv(1800 * bytesPerSecond, 1000)
        ELSE Min(RoundDiv(3000 * bytesPerSecond, 1000), DurationPartBytes(audio, 5))
  IN Max(minChunkSize, Min(maxChunkSize, chunkSizeBytes))

latencyAdjustedNever(finalChunkSize) == finalChunkSize

\* the adaptive step: a size that plays longer than maxLatencyTarget is
\* replaced by the clamped size of the target
latencyAdjusted(finalChunkSize) ==
  LET targetBytes == (maxLatencyTarget * bytesPerSecond) \div 1000
  IN IF finalChunkSize * 1000 > maxLatencyTarget * bytesPerSecond
     THEN Max(minChunkSize, Min(maxChunkSize, targetBytes))
     ELSE finalChunkSize

calculateOptimalChunkSizeFallback(audio) == DefaultChunkSize

calculateOptimalChunkSize(audio) == latencyAdjusted(bandedChunkSize(audio))

\* chunks.length of splitAudioIntoChunks(audioData, calculateOptimalChunkSize(audioData))
NumChunks(audio) ==
  Len(ChunkRanges(0, audio.dataLen, calculateOptimalChunkSize(audio) - WavHeaderLen))

(***************************************************************************)
(* Bounds of the event-loop model.                                         *)
(***************************************************************************)
MaxSockets == 1       \* client sockets
MaxTurns == 2         \* user inputs over a run
MaxQuotaTurns == 12   \* user inputs over a run of profile "quota"
MaxFrags == 2         \* audio fragments sent by upstream over a run
MaxInterrupts == 1    \* interruptions (user or upstream) over a run
MaxFailures == 1      \* audio-chunk emits that throw over a run
MaxFailSkip == 2      \* the failing emit is the 1st..MaxFailSkip-th of its callback
MaxStalls == 1        \* event-loop stalls over a run
MaxResponseBytes == 900000   \* upstream keeps one pending response within this
MaxStreamFrags == 4   \* audio fragments of a run in which upstream pauses
MaxSessionSockets == 2   \* client sockets of a run with several sessions
MaxEnds == 1          \* 'end-conversation' events over a run
MaxRestarts == 2      \* repeated 'start-conversation' events over a run
MaxAudioChunks == 3   \* 'audio-chunk' events of the clients over a run
MaxDisconnects == 1   \* sockets that disconnect over a run
MaxManagerSessions == 4   \* sessions created over a run of SpecManager
MaxCloses == 1        \* upstream sessions that close or fail over a run
MaxRetryEnds == 3     \* 'end-conversation' events over a run of profile "retries"
CeilingMs == 6000     \* the longest ceiling on a pending response that is examined

\* A run is either one in which emits may throw, with responses of up to a
\* few chunks, or one in which the event loop may stall, with responses long
\* enough to be in delivery when it does.
Profiles == {"faults", "stalls", "control", "stream", "outage", "sessions", "quota", "audio",
             "departures", "retries"}
FragLens(p) ==
  CASE p = "faults" -> {0, 40000, 100000}
    [] p = "stalls" -> {0, 100000, 900000}
    [] OTHER -> {100000}

\* what session.interrupt() of the upstream SDK does in a run: it throws at
\* once (TRUE), or returns a promise that settles later (FALSE)
InterruptThrows(p) == IF p = "control" THEN BOOLEAN ELSE {TRUE}

\* the fragments upstream sends over a run
FragBudget(p) ==
  IF p = "stream" THEN MaxStreamFrags ELSE IF p \in {"quota", "retries"} THEN 0 ELSE MaxFrags

\* the runs in which a user or upstream interrupts
Interrupting(p) ==
  p \notin {"stream", "outage", "sessions", "quota", "audio", "departures", "retries"}

\* the runs in which the upstream session closes or fails
Failing(p) == p \in {"outage", "retries"}

\* the 'end-conversation' events of a run; a run of profile "retries" has
\* enough of them for a conversation to be active at each retry
EndBudget(p) == IF p = "retries" THEN MaxRetryEnds ELSE IF p = "sessions" THEN MaxEnds ELSE 0

\* the user inputs of a run; a run of profile "quota" has enough of them to
\* use up the minute's quota, and its upstream calls all succeed
TurnBudget(p) == IF p = "quota" THEN MaxQuotaTurns ELSE MaxTurns
CallOutcomes(p) == IF p = "quota" THEN {TRUE} ELSE BOOLEAN

\* the client repeats 'start-conversation' on a socket that has a session
Restarts(p) == p = "control"

MaxIPs == 2           \* client addresses of SpecLimiter
MaxAccepted == 6      \* connection attempts accepted over a run
TimeStep == 30000     \* ms the clock advances by in one step
MaxClock == 60000     \* the clock stops here
IPs == 1..MaxIPs

Sockets == 1..MaxSockets
SocketsOf(p) == IF p \in {"sessions", "departures"} THEN 1..MaxSessionSockets ELSE Sockets

VARIABLES
  codecIn, codecOut,            \* SpecCodec: the input drawn and the result computed
  socketToSession,              \* SessionManager.socketToSession (0: no session)
  nextSessionId,                \* sessions are numbered in creation order
  activeSessions,               \* VoiceHandlerLive.activeSessions: id -> sessionInfo
  session, isConnected,         \* GeminiLiveService.session (non-null?), isConnected
  sessionFresh,                 \* now - quotaManager.lastSessionTime < sessionReuseTime
  pendingInit,                  \* sendTextInput activations awaiting initSession
  openSessions,                 \* upstream live sessions connected and not closed
  minuteCount,                  \* quotaManager.keyUsage[current key].minuteCount
  currentAudioResponse,         \* the pending fragment buffer
  responseCompletionTimeout,    \* the timer of scheduleResponseCompletion
  reprocessTimers,              \* pending setTimeout(completeAudioResponse, 100)
  timersPending,                \* timers of scheduleResponseCompletion set, not yet run or cleared
  isProcessingAudioResponse,
  audioResponseQueue,
  audioQueue,
  conversationState,
  interruptResetTimers,         \* pending setTimeout(isInterrupted = false, 1000)
  responses,                    \* every response handed to onAudioChunk, by id
  tasks,                        \* suspended handleAudioChunkFromGemini activations
  lanes,                        \* suspended lane coroutines of streamChunksMultiport
  log,                          \* events emitted to the sockets, in order
  turnsIssued, sentTurns, upTurn, fragsEmitted, interruptedTurns,
  interrupts, failuresArmed, stalls,
  profile,                      \* the environment of this run, one of Profiles
  idle,                         \* timeoutDuration has passed since the last fragment
  burst,                        \* the fragments that arrived for the pending response
  sessions,                     \* SessionManager.sessions: id -> Session
  pendingInterrupt,             \* handleInterruption activations awaiting session.interrupt()
  interruptThrew,               \* the user interrupts whose session.interrupt() threw
  wait,                         \* the pauses of upstream while a response is pending
  connectionAttempts,           \* SocketServerLive.connectionAttempts: IP -> timestamps
  now,                          \* Date.now(), in ms since the server started
  accepted,                     \* per IP, when the middleware accepted an attempt
  connections,                  \* per IP, the sockets of io.sockets.sockets set up with handlers
  reconnecting,                 \* activations of reconnect() awaiting initSession
  reconnectAttempts,            \* sessionManager.reconnectAttempts
  reconnected,                  \* sessionManager.lastReconnectTime # 0
  retryTimers,                  \* pending setTimeout(..., 10000) of attemptReconnection
  refusals,                     \* attemptReconnection calls that found the limit reached
  closes,                       \* the upstream sessions that closed or failed
  closedAt,                     \* what had happened when the first of them did
  turnOwner,                    \* the session that issued each user input
  ends,                         \* the 'end-conversation' events handled
  statusEvents,                 \* the 'session-status' events emitted: [socket, sessionId]
  audioIn                       \* the 'audio-chunk' events received from the clients

codecVars == << codecIn, codecOut >>
limiterVars == << connectionAttempts, now, accepted, connections >>
sessVars == << socketToSession, nextSessionId >>
upVars == << session, isConnected, sessionFresh, pendingInit, minuteCount, openSessions >>
accVars == << currentAudioResponse, responseCompletionTimeout, reprocessTimers, timersPending,
              isProcessingAudioResponse, audioResponseQueue, audioQueue >>
convVars == << conversationState, interruptResetTimers >>
delivVars == << activeSessions, responses, tasks, lanes, log >>
envVars == << turnsIssued, sentTurns, upTurn, fragsEmitted, interruptedTurns,
              interrupts, failuresArmed, stalls, profile, idle, burst >>
intrVars == << sessions, pendingInterrupt, interruptThrew >>
waitVars == << wait >>
retryVars == << reconnectAttempts, reconnected, retryTimers, refusals >>
outageVars == << reconnecting, closes, closedAt, retryVars >>
ownVars == << turnOwner, ends, statusEvents, audioIn >>
vars == << codecVars, limiterVars, sessVars, upVars, accVars, convVars, delivVars, envVars,
           intrVars, waitVars, outageVars, ownVars >>

NoWait == [gaps |-> 0, sinceLast |-> FALSE]
NotClosed == [frags |-> -1, responses |-> -1, events |-> -1]
EmptyResponse == [chunks |-> <<>>, timeoutDuration |-> timeoutDuration]
NoInput == [op |-> "none", wav |-> FALSE, data |-> <<>>, raws |-> <<>>, chunkSize |-> 0]

Ev(type, sess, resp, chunkIndex, totalChunks, isLastChunk, audioData, portId, turn) ==
  [type |-> type, sess |-> sess, resp |-> resp, chunkIndex |-> chunkIndex,
   totalChunks |-> totalChunks, isLastChunk |-> isLastChunk,
   audioData |-> audioData, portId |-> portId, turn |-> turn]

\* an event of the interruption protocol; intr numbers the interruption
IEv(type, sess, intr) ==
  [type |-> type, sess |-> sess, resp |-> -1, chunkIndex |-> -1, totalChunks |-> -1,
   isLastChunk |-> FALSE, audioData |-> -1, portId |-> -1, turn |-> turnsIssued,
   intr |-> intr]

RECURSIVE SumLen(_)
SumLen(fs) == IF fs = <<>> THEN 0 ELSE Head(fs).len + SumLen(Tail(fs))

\* the sizes of combineAudioChunks(chunks): every fragment was framed by
\* processAudioResponse as 48 kHz WAV, the merged data is the concatenation
combinedAudio(chunks) == [sampleRate |-> 48000, dataLen |-> SumLen(chunks)]

\* generateFallbackAudio() hands createWAVFile an ArrayBuffer, whose .length is
\* undefined: new Uint8Array(44 + undefined) is empty and wavFile.set(header)
\* throws a RangeError, so the call never returns audio
generateFallbackAudioThrows == TRUE

\* portChunks[p].length for n chunks dealt round-robin
portOfNext(i, L) == (i + 1) % L

\* the lane of chunk i: i % maxPorts in the loop of streamChunksMultiport
portOf(i, L) == i % L

pushFront(list, i) == << i >> \o list

\* portChunks[portId].push(...)
push(list, i) == Append(list, i)

\* the loop that fills portChunks with the indexes i..M-1, lanes 0..L-1
RECURSIVE distributeFrom(_, _, _, _)
distributeFrom(i, M, L, acc) ==
  IF i < M
  THEN distributeFrom(i + 1, M, L, [acc EXCEPT ![portOf(i, L)] = push(@, i)])
  ELSE acc

portChunks(M, L) == distributeFrom(0, M, L, [p \in 0..(L - 1) |-> <<>>])

LaneCount(p, n) == IF p < n THEN (n - p + maxPorts - 1) \div maxPorts ELSE 0

(***************************************************************************)
(* The synchronous run of the delivery code.  S carries what it reads and  *)
(* writes; an action commits the S it ends with.                           *)
(***************************************************************************)
Fails(S) == S.failAt = 1

\* socket.emit throws; the log keeps where (ghost entry, nothing is sent)
Threw(S, r, sid, portId) ==
  [S EXCEPT !.failAt = 0,
            !.log = Append(@, Ev("emit-failed", sid, r, -1, -1, FALSE, -1, portId, -1))]

\* the socket captured for session sid has disconnected: socket.io drops
\* what is emitted on it
Gone(S, sid) == sid \in DOMAIN S.act /\ ~S.act[sid].connected

Emitted(S, ev) ==
  [S EXCEPT !.log = IF Gone(S, ev.sess) THEN @ ELSE Append(@, ev),
            !.failAt = IF @ > 0 THEN @ - 1 ELSE 0]

SetTask(ts, r, t) == [x \in DOMAIN ts \cup {r} |-> IF x = r THEN t ELSE ts[x]]
DropTask(ts, r) == [x \in DOMAIN ts \ {r} |-> ts[x]]

\* socket.emit('audio-complete', ...) after n chunks went through the lanes
AudioComplete(S, r, sid, n) ==
  [S EXCEPT !.log = IF Gone(S, sid) THEN @
                    ELSE Append(@, Ev("audio-complete", sid, r, -1, n + 1, FALSE, -1, -1, -1))]
RECURSIVE handleAudioChunkFromGemini(_, _, _)
RECURSIVE streamChunksMultiport(_, _, _, _)
RECURSIVE streamChunksSequential(_, _, _, _, _)

\* the loop of streamChunksSequential from chunk i, then the rest of the caller
streamChunksSequential(S, r, sid, n, i) ==
  IF Fails(S)
  THEN handleAudioChunkFromGemini(AudioComplete(Threw(S, r, sid, -2), r, sid, n), r, sid)
  ELSE LET S1 == Emitted(S, Ev("audio-chunk", sid, r, i, n, i = n - 1, i + 1, -2, -1))
       IN IF i = n - 1
          THEN handleAudioChunkFromGemini(AudioComplete(S1, r, sid, n), r, sid)
          ELSE [S1 EXCEPT !.tasks =
                  SetTask(@, r, [sess |-> sid, n |-> n, mode |-> "seq", i |-> i + 1,
                                 due |-> sequentialDelay])]

\* streamChunksMultiport up to its first suspension: lane 0 sends its first
\* chunk at once, every other non-empty lane waits for portId * chunkDelay
streamChunksMultiport(S, r, sid, n) ==
  LET lane0fail == Fails(S)
      S0 == IF lane0fail THEN Threw(S, r, sid, 0)
            ELSE Emitted(S, Ev("audio-chunk", sid, r, 0, n, n = 1, 1, 0, -1))
      others == {[resp |-> r, sess |-> sid, n |-> n, p |-> p, j |-> 0, ph |-> "pre",
                  due |-> p * chunkDelay] :
                   p \in {q \in 1..(maxPorts - 1) : q < n}}
      lane0more == LaneCount(0, n) > 1
      lane0 == IF ~lane0fail /\ lane0more
               THEN {[resp |-> r, sess |-> sid, n |-> n, p |-> 0, j |-> 0, ph |-> "post",
                      due |-> laneDelay]}
               ELSE {}
      S1 == [S0 EXCEPT !.lanes = @ \cup others \cup lane0]
  IN IF lane0fail THEN streamChunksSequential(S1, r, sid, n, 0)
     ELSE IF others = {} /\ lane0 = {}
     THEN handleAudioChunkFromGemini(AudioComplete(S1, r, sid, n), r, sid)
     ELSE [S1 EXCEPT !.tasks =
             SetTask(@, r, [sess |-> sid, n |-> n, mode |-> "multi", i |-> 0, due |-> 0])]

\* the for-loop of handleAudioChunkFromGemini over the sessions after `after`
\* (Map order is creation order, and session ids grow with creation)
handleAudioChunkFromGemini(S, r, after) ==
  LET rest == {sid \in DOMAIN S.act : sid > after}
  IN IF rest = {} THEN [S EXCEPT !.tasks = DropTask(@, r)]
     ELSE
       LET sid == CHOOSE x \in rest : \A y \in rest : x <= y
           N == NumChunks(S.responses[r].audio)
       IN IF ~S.act[sid].connected
          THEN handleAudioChunkFromGemini(S, r, sid)
          ELSE IF S.act[sid].isInterrupted
          THEN handleAudioChunkFromGemini(
                 [S EXCEPT !.act[sid].isInterrupted = FALSE,
                           !.log = Append(@, Ev("skip", sid, r, -1, -1, FALSE, -1, -1, -1))],
                 r, sid)
          ELSE IF N = 0
          THEN handleAudioChunkFromGemini(AudioComplete(S, r, sid, 0), r, sid)
          ELSE IF Fails(S)
          THEN [Threw(S, r, sid, -1) EXCEPT !.tasks = DropTask(@, r)]
          ELSE LET S1 == Emitted(S, Ev("audio-chunk", sid, r, 0, N, N = 1, 0, -1, -1))
               IN IF N = 1
                  THEN handleAudioChunkFromGemini(AudioComplete(S1, r, sid, 0), r, sid)
                  ELSE streamChunksMultiport(S1, r, sid, N - 1)

\* a lane coroutine resumes from its timer
LaneStep(S, l) ==
  LET r == l.resp
      live == /\ r \in DOMAIN S.tasks
              /\ S.tasks[r].sess = l.sess
              /\ S.tasks[r].mode = "multi"
      jj == IF l.ph = "post" THEN l.j + 1 ELSE l.j
      idx == portChunks(l.n, maxPorts)[l.p][jj + 1]
      Sx == [S EXCEPT !.lanes = @ \ {l}]
  IN IF l.ph = "post" /\ l.p > 0
     THEN [Sx EXCEPT !.lanes =
             @ \cup {[l EXCEPT !.j = jj, !.ph = "pre", !.due = l.p * chunkDelay]}]
     ELSE IF Fails(S)
     THEN IF live THEN streamChunksSequential(Threw(Sx, r, l.sess, l.p), r, l.sess, l.n, 0)
          ELSE Threw(Sx, r, l.sess, l.p)
     ELSE
       LET S1 == Emitted(Sx, Ev("audio-chunk", l.sess, r, idx, l.n, idx = l.n - 1,
                                idx + 1, l.p, -1))
           more == jj < LaneCount(l.p, l.n) - 1
           S2 == IF more
                 THEN [S1 EXCEPT !.lanes =
                         @ \cup {[l EXCEPT !.j = jj, !.ph = "post", !.due = laneDelay]}]
                 ELSE S1
           othersLeft == \E x \in S2.lanes : x.resp = r /\ x.sess = l.sess
       IN IF live /\ ~othersLeft
          THEN handleAudioChunkFromGemini(AudioComplete(S2, r, l.sess, l.n), r, l.sess)
          ELSE S2

\* failAt = k > 0: the k-th audio-chunk emit of the running callback throws
St(failAt) == [log |-> log, act |-> activeSessions, lanes |-> lanes, tasks |-> tasks,
               failAt |-> failAt, responses |-> responses]

\* the same after the time d has passed for the lane and loop timers
Later(S, d) ==
  [S EXCEPT !.lanes = {[l EXCEPT !.due = @ - d] : l \in @},
            !.tasks = [r \in DOMAIN @ |->
                         IF @[r].mode = "seq" THEN [@[r] EXCEPT !.due = @ - d]
                         ELSE @[r]]]

\* the environment lets at most MaxFailures emits throw
FailChoices ==
  IF profile = "faults" /\ failuresArmed < MaxFailures THEN 0..MaxFailSkip ELSE {0}

Commit(S) ==
  /\ log' = S.log
  /\ activeSessions' = S.act
  /\ lanes' = S.lanes
  /\ tasks' = S.tasks
  /\ S.failAt = 0      \* the emit chosen to throw was reached
  /\ responses' = S.responses

\* onAudioChunk(audio): a new activation of handleAudioChunkFromGemini
onAudioChunk(S, resp) ==
  LET S1 == [S EXCEPT !.responses = Append(@, resp)]
  IN handleAudioChunkFromGemini(S1, Len(S1.responses), 0)

(***************************************************************************)
(* Time.  The lane and loop timers carry the time left until they expire,  *)
(* in units of TimeUnit ms; one that is overdue has a negative time left.  *)
(* A timer runs no earlier than its expiry, and pending timers run in the  *)
(* order of their expiry.  The lane and loop delays (5..25 ms) are short   *)
(* against the delays of the other timers (100..2000 ms): those expire     *)
(* once no lane or loop timer is pending, or when the event loop was busy  *)
(* for StallUnits, and then they run after the timers that were pending    *)
(* before them.  Input from the network is handled once no overdue timer   *)
(* is left.                                                                *)
(***************************************************************************)
SeqTasks == {r \in DOMAIN tasks : tasks[r].mode = "seq"}

ShortDues == {l.due : l \in lanes} \cup {tasks[r].due : r \in SeqTasks}

ShortTimersPending == ShortDues # {}

NextExpiry == CHOOSE d \in ShortDues : \A e \in ShortDues : d <= e

\* the time that passes until the next lane or loop timer runs
Elapse == Max(NextExpiry, 0)

NoTimerOverdue ==
  /\ \A d \in ShortDues : d >= 0
  /\ responseCompletionTimeout # "due"

\* a long timer that is pending may run now
LongTimerRuns(expired) ==
  IF expired THEN \A d \in ShortDues : d >= 0 ELSE ~ShortTimersPending

MaxOf(S) == CHOOSE x \in S : \A y \in S : y <= x

\* the keys of a Map in the order of their insertion (ids grow with it)
RECURSIVE InOrder(_)
InOrder(S) ==
  IF S = {} THEN <<>>
  ELSE LET m == CHOOSE x \in S : \A y \in S : x <= y
       IN << m >> \o InOrder(S \ {m})

(***************************************************************************)
(* GeminiLiveService: the response accumulator.                            *)
(***************************************************************************)
clearTimeoutNothing(n, handle) == n

\* clearTimeout(this.responseCompletionTimeout), guarded by the handle being
\* set: of n timers pending, the one the handle names is removed
clearTimeout(n, handle) == IF handle # "none" THEN n - 1 ELSE n

scheduleResponseCompletionAtOnce(car) == "due"

\* clearTimeout, then setTimeout(completeAudioResponse, timeoutDuration); a
\* record taken from audioResponseQueue has no timeoutDuration (0 here), and
\* setTimeout then waits 1 ms
scheduleResponseCompletion(car) ==
  IF car.timeoutDuration \div TimeUnit = 0 THEN "due" ELSE "armed"

clearAllAudioResponses ==
  /\ currentAudioResponse' = EmptyResponse
  /\ responseCompletionTimeout' = "none"
  /\ timersPending' = clearTimeout(timersPending, responseCompletionTimeout)
  /\ audioQueue' = <<>>
  /\ isProcessingAudioResponse' = FALSE
  /\ audioResponseQueue' = <<>>

recordTurn(cs) == IF cs.isActive THEN [cs EXCEPT !.turnCount = @ + 1] ELSE cs

\* the response completeAudioResponse hands to onAudioChunk; idle and burst
\* record when it was produced and which fragments had arrived for it
UpstreamResponse(chunks, idleNow) ==
  [audio |-> combinedAudio(chunks), frags |-> chunks, idle |-> idleNow,
   burst |-> burst]

\* completeAudioResponse(), entered from a timer; idleNow: timeoutDuration
\* has passed since the last fragment
completeAudioResponse(tracked, f, idleNow) ==
  LET rct == IF tracked THEN "none" ELSE responseCompletionTimeout
      rt == IF tracked THEN reprocessTimers ELSE reprocessTimers - 1
      \* the timer that runs is pending no longer; clearCurrentAudioResponse
      \* clears the one the handle names
      ran == IF tracked THEN timersPending - 1 ELSE timersPending
      cleared == IF tracked THEN ran
                 ELSE clearTimeout(timersPending, responseCompletionTimeout)
  IN IF currentAudioResponse.chunks = <<>>
     THEN /\ f = 0
          /\ responseCompletionTimeout' = rct
          /\ reprocessTimers' = rt
          /\ timersPending' = ran
          /\ UNCHANGED << currentAudioResponse, isProcessingAudioResponse,
                          audioResponseQueue, audioQueue, delivVars, burst >>
     ELSE IF isProcessingAudioResponse
     THEN /\ f = 0
          /\ audioResponseQueue' = Append(audioResponseQueue, currentAudioResponse.chunks)
          /\ currentAudioResponse' = EmptyResponse
          /\ responseCompletionTimeout' = "none"
          /\ timersPending' = cleared
          /\ reprocessTimers' = rt
          /\ UNCHANGED << isProcessingAudioResponse, audioQueue, delivVars, burst >>
     ELSE /\ audioQueue' = Append(audioQueue, Len(responses) + 1)
          /\ Commit(onAudioChunk(St(f), UpstreamResponse(currentAudioResponse.chunks,
                                                         idleNow)))
          /\ isProcessingAudioResponse' = FALSE
          /\ responseCompletionTimeout' = "none"
          /\ timersPending' = cleared
          /\ burst' = <<>>
          /\ IF audioResponseQueue # <<>>
             THEN /\ currentAudioResponse' =
                       [chunks |-> Head(audioResponseQueue), timeoutDuration |-> 0]
                  /\ audioResponseQueue' = Tail(audioResponseQueue)
                  /\ reprocessTimers' = rt + 1
             ELSE /\ currentAudioResponse' = EmptyResponse
                  /\ reprocessTimers' = rt
                  /\ UNCHANGED audioResponseQueue

(***************************************************************************)
(* Actions of the event loop.                                              *)
(***************************************************************************)
\* SessionManager.getSession (0: undefined)
getSession(sid) == IF sid \in DOMAIN sessions THEN sid ELSE 0

\* SessionManager.endSession, for the sessions of the set gone: each is
\* deleted from sessions, and so is the socketToSession entry of its socket
endSession(gone) ==
  /\ sessions' = [x \in DOMAIN sessions \ gone |-> sessions[x]]
  /\ socketToSession' =
       [k \in DOMAIN socketToSession |->
          IF \E x \in gone : sessions[x].socketId = k THEN 0 ELSE socketToSession[k]]
  /\ UNCHANGED nextSessionId

\* the sessions of activeSessions whose socket is connected
Reachable == {x \in DOMAIN activeSessions : activeSessions[x].connected}

\* the socket has disconnected; its id is not used again
Disconnected(sock) ==
  \E x \in DOMAIN activeSessions :
    activeSessions[x].socket = sock /\ ~activeSessions[x].connected

\* Session.updateStatus, for the session sid of SessionManager.sessions
updateStatus(ss, sid, status) ==
  [x \in DOMAIN ss |-> IF x = sid THEN [ss[x] EXCEPT !.status = status] ELSE ss[x]]

\* Session.recordInterruption
recordInterruption(ss, sid) == updateStatus(ss, sid, "interrupted")

getSessionBySocketIdNone(sock) == 0

\* SessionManager.getSessionBySocketId (0: null)
getSessionBySocketId(sock) == socketToSession[sock]

\* the 'start-conversation' events on sockets that had a session
Repeated == Len(statusEvents) - (nextSessionId - 1)

\* socket 'start-conversation'
handleStartConversation(sock) ==
  /\ NoTimerOverdue
  /\ ~Disconnected(sock)
  /\ IF getSessionBySocketId(sock) # 0
     THEN /\ Restarts(profile)
          /\ Repeated < MaxRestarts
          /\ sessions' = updateStatus(sessions, getSessionBySocketId(sock), "active")
          /\ statusEvents' = Append(statusEvents,
                                    [socket |-> sock, sessionId |-> getSessionBySocketId(sock)])
          /\ UNCHANGED << sessVars, activeSessions, conversationState >>
     ELSE /\ socketToSession' = [socketToSession EXCEPT ![sock] = nextSessionId]
          /\ statusEvents' = Append(statusEvents,
                                    [socket |-> sock, sessionId |-> nextSessionId])
          /\ sessions' = [x \in DOMAIN sessions \cup {nextSessionId} |->
                            IF x = nextSessionId THEN [status |-> "active", socketId |-> sock]
                            ELSE sessions[x]]
          /\ nextSessionId' = nextSessionId + 1
          /\ activeSessions' =
               [x \in DOMAIN activeSessions \cup {nextSessionId} |->
                  IF x = nextSessionId
                  THEN [socket |-> sock, connected |-> TRUE, isInterrupted |-> FALSE,
                        isProcessing |-> FALSE, audioQueue |-> 0]
                  ELSE activeSessions[x]]
          /\ conversationState' =
               IF conversationState.isActive THEN conversationState
               ELSE [isActive |-> TRUE, turnCount |-> 0, isInterrupted |-> FALSE,
                     systemPromptSent |-> FALSE]
  /\ UNCHANGED << codecVars, limiterVars, turnOwner, ends, audioIn, outageVars, waitVars, pendingInterrupt, interruptThrew, upVars, accVars,
                  interruptResetTimers, responses, tasks, lanes, log, envVars >>

\* sendTextInput fails: its fallback calls generateFallbackAudio, which
\* throws, so the promise is rejected and handleTextInput emits 'error'
textInputError(sid, t) ==
  /\ generateFallbackAudioThrows
  /\ log' = Append(log, Ev("error", sid, -1, -1, -1, FALSE, -1, -1, t))
  /\ UNCHANGED << activeSessions, responses, tasks, lanes >>

\* sendTextInput from the connection check on
sendTextInputRest(sid, t, conn, sendOk) ==
  IF ~conn
  THEN /\ textInputError(sid, t)
       /\ UNCHANGED << accVars, conversationState, sentTurns, minuteCount, burst >>
  ELSE /\ clearAllAudioResponses
       /\ burst' = <<>>
       /\ UNCHANGED reprocessTimers
       /\ IF sendOk
          THEN /\ conversationState' =
                    [recordTurn(conversationState) EXCEPT !.systemPromptSent = TRUE]
               /\ sentTurns' = sentTurns \cup {t}
               /\ minuteCount' = minuteCount + 1
               /\ UNCHANGED delivVars
          ELSE /\ conversationState' = recordTurn(conversationState)
               /\ textInputError(sid, t)
               /\ UNCHANGED << sentTurns, minuteCount >>

\* socket 'text-input': handleTextInput and sendTextInput up to its first await
handleTextInput(sock, sendOk) ==
  /\ NoTimerOverdue
  /\ socketToSession[sock] # 0
  /\ turnsIssued < TurnBudget(profile)
  /\ turnsIssued' = turnsIssued + 1
  /\ turnOwner' = Append(turnOwner, socketToSession[sock])
  /\ IF ~(minuteCount < requestsPerMinute)
     THEN /\ textInputError(socketToSession[sock], turnsIssued + 1)
          /\ UNCHANGED << upVars, accVars, conversationState, sentTurns, burst >>
     ELSE IF ~(session /\ isConnected /\ sessionFresh)
     THEN /\ pendingInit' = pendingInit \cup {[turn |-> turnsIssued + 1,
                                               sess |-> socketToSession[sock]]}
          /\ UNCHANGED << session, isConnected, sessionFresh, openSessions, minuteCount, accVars,
                          conversationState, delivVars, sentTurns, burst >>
     ELSE /\ sendTextInputRest(socketToSession[sock], turnsIssued + 1,
                               isConnected /\ session, sendOk)
          /\ UNCHANGED << session, isConnected, sessionFresh, openSessions, pendingInit >>
  /\ UNCHANGED << codecVars, limiterVars, ends, statusEvents, audioIn, outageVars, waitVars, intrVars, sessVars, interruptResetTimers, upTurn, fragsEmitted,
                  interruptedTurns, interrupts, failuresArmed, stalls, profile, idle >>

\* socket 'audio-chunk': handleAudioChunk, and for the last chunk of an input
\* processCompleteAudio with sendAudioInput; a chunk that arrives while
\* sessionInfo.isProcessing is set is skipped
handleAudioChunk(sock, isLastChunk, sendOk) ==
  LET sid == socketToSession[sock]
      info == activeSessions[sid]
      t == turnsIssued + 1
      skipped == info.isProcessing
      forward == ~skipped /\ isLastChunk
      conn == isConnected /\ session
  IN
  /\ NoTimerOverdue
  /\ profile = "audio"
  /\ sid # 0
  /\ Len(audioIn) < MaxAudioChunks
  /\ forward => turnsIssued < TurnBudget(profile)
  /\ audioIn' = Append(audioIn, [sess |-> sid, isLastChunk |-> isLastChunk,
                                   skipped |-> skipped,
                                   sent |-> forward /\ conn /\ sendOk])
  /\ IF ~forward
     THEN /\ activeSessions' =
               IF skipped THEN activeSessions
               ELSE [activeSessions EXCEPT ![sid].audioQueue = @ + 1]
          /\ UNCHANGED << turnsIssued, turnOwner, accVars, conversationState, sentTurns, burst >>
     ELSE /\ turnsIssued' = t
          /\ turnOwner' = Append(turnOwner, sid)
          /\ activeSessions' =
               [activeSessions EXCEPT ![sid].audioQueue = 0,
                                      ![sid].isProcessing = conn /\ sendOk]
          /\ IF ~conn
             THEN UNCHANGED << accVars, conversationState, sentTurns, burst >>
             ELSE /\ clearAllAudioResponses
                  /\ burst' = <<>>
                  /\ UNCHANGED reprocessTimers
                  /\ conversationState' = recordTurn(conversationState)
                  /\ sentTurns' = IF sendOk THEN sentTurns \cup {t} ELSE sentTurns
  /\ UNCHANGED << codecVars, limiterVars, ends, statusEvents, outageVars, waitVars, intrVars, sessVars, upVars,
                  interruptResetTimers, responses, tasks, lanes, log, upTurn, fragsEmitted,
                  interruptedTurns, interrupts, failuresArmed, stalls, profile, idle >>

\* sessionManager.maxReconnectAttempts
maxReconnectAttempts == 3

limitReachedNever(attempts) == FALSE

\* attemptReconnection, line 970
limitReached(attempts) == attempts >= maxReconnectAttempts

\* the callback onopen of initSession, as far as the counter goes
onopen(attempts) == 0

\* initSession() settles and sendTextInput resumes
initSessionDone(p, ok, sendOk) ==
  /\ NoTimerOverdue
  /\ p \in pendingInit
  /\ pendingInit' = pendingInit \ {p}
  /\ IF ok
     THEN /\ session' = TRUE
          /\ isConnected' = TRUE
          /\ sessionFresh' = TRUE
          /\ openSessions' = openSessions + 1
          /\ reconnectAttempts' = onopen(reconnectAttempts)
          /\ sendTextInputRest(p.sess, p.turn, TRUE, sendOk)
     ELSE /\ textInputError(p.sess, p.turn)
          /\ UNCHANGED << session, isConnected, sessionFresh, openSessions, minuteCount, accVars,
                          conversationState, sentTurns, burst, reconnectAttempts >>
  /\ UNCHANGED << codecVars, limiterVars, ownVars, reconnecting, closes, closedAt, reconnected, retryTimers,
                  refusals, waitVars, intrVars, sessVars, interruptResetTimers, turnsIssued, upTurn,
                  fragsEmitted, interruptedTurns, interrupts, failuresArmed, stalls,
                  profile, idle >>

\* onmessage with audio: handleServerMessage lines 352-378
upstreamAudio(t, len) ==
  /\ NoTimerOverdue
  /\ session /\ isConnected
  /\ t \in sentTurns
  /\ t >= upTurn
  /\ fragsEmitted < FragBudget(profile)
  /\ SumLen(currentAudioResponse.chunks) + len <= MaxResponseBytes
  /\ upTurn' = t
  /\ fragsEmitted' = fragsEmitted + 1
  /\ idle' = FALSE
  /\ wait' = IF burst = <<>> THEN NoWait ELSE [wait EXCEPT !.sinceLast = FALSE]
  /\ LET frag == [turn |-> t, len |-> len, k |-> fragsEmitted + 1,
                  late |-> t \in interruptedTurns]
     IN /\ currentAudioResponse' =
             [currentAudioResponse EXCEPT !.chunks = Append(@, frag)]
        /\ burst' = Append(burst, frag)
  /\ responseCompletionTimeout' = scheduleResponseCompletion(currentAudioResponse)
  /\ timersPending' = clearTimeout(timersPending, responseCompletionTimeout) + 1
  /\ UNCHANGED << codecVars, limiterVars, ownVars, outageVars, intrVars, sessVars, session, isConnected, sessionFresh, openSessions, pendingInit,
                  minuteCount, reprocessTimers, isProcessingAudioResponse,
                  audioResponseQueue, audioQueue, convVars, delivVars, turnsIssued,
                  sentTurns, interruptedTurns, interrupts, failuresArmed, stalls, profile >>

\* onmessage with serverContent.interrupted: handleServerMessage lines 381-405
\* and handleInterruptionFromGemini
upstreamInterrupted ==
  /\ NoTimerOverdue
  /\ session /\ isConnected
  /\ sentTurns # {}
  /\ upTurn <= MaxOf(sentTurns)
  /\ Interrupting(profile)
  /\ interrupts < MaxInterrupts
  /\ interrupts' = interrupts + 1
  /\ interruptedTurns' = interruptedTurns \cup {MaxOf(sentTurns)}
  /\ upTurn' = MaxOf(sentTurns) + 1
  /\ clearAllAudioResponses
  /\ burst' = <<>>
  /\ conversationState' = [conversationState EXCEPT !.isInterrupted = TRUE]
  /\ interruptResetTimers' = interruptResetTimers + 1
  /\ log' = log \o [i \in 1..Cardinality(Reachable) |->
                      Ev("interruption", InOrder(Reachable)[i], -1, -1, -1,
                         FALSE, -1, -1, turnsIssued)]
  /\ UNCHANGED << codecVars, limiterVars, ownVars, outageVars, waitVars, intrVars, sessVars, upVars, reprocessTimers, activeSessions,
                  responses, tasks, lanes, turnsIssued, sentTurns,
                  fragsEmitted, failuresArmed, stalls, profile, idle >>

interruptReplyAlwaysSuccessful(ok) == "interruption-successful"

\* the event emitted after 'await session.interrupt()' settled
interruptReply(ok) ==
  IF ok THEN "interruption-successful" ELSE "interruption-partial"

\* socket 'interrupt': handleInterruption up to the end, or up to the await
\* of session.interrupt() when the call returns a promise that is pending;
\* threw: the call throws at once
handleInterruption(sock, threw) ==
  /\ NoTimerOverdue
  /\ socketToSession[sock] # 0
  /\ Interrupting(profile)
  /\ interrupts < MaxInterrupts
  /\ interrupts' = interrupts + 1
  /\ interruptedTurns' =
       interruptedTurns \cup (IF sentTurns = {} THEN {} ELSE {MaxOf(sentTurns)})
  /\ activeSessions' =
       [activeSessions EXCEPT ![socketToSession[sock]].isInterrupted = TRUE,
                              ![socketToSession[sock]].isProcessing = FALSE,
                              ![socketToSession[sock]].audioQueue = 0]
  /\ audioQueue' = <<>>
  /\ LET sid == socketToSession[sock]
         n == interrupts + 1
         confirmed == IEv("interruption-confirmed", sid, n)
         handled == IEv("interruption-handled", sid, n)
     IN IF ~session
        THEN /\ log' = log \o << confirmed, handled >>
             /\ sessions' = recordInterruption(sessions, sid)
             /\ UNCHANGED << pendingInterrupt, interruptThrew >>
        ELSE IF threw
        THEN /\ log' = log \o << confirmed, IEv(interruptReply(FALSE), sid, n), handled >>
             /\ sessions' = recordInterruption(sessions, sid)
             /\ interruptThrew' = interruptThrew \cup {n}
             /\ UNCHANGED pendingInterrupt
        ELSE /\ log' = Append(log, confirmed)
             /\ pendingInterrupt' = pendingInterrupt \cup {[sess |-> sid, intr |-> n]}
             /\ UNCHANGED << sessions, interruptThrew >>
  /\ UNCHANGED << codecVars, limiterVars, ownVars, outageVars, waitVars, sessVars, upVars, currentAudioResponse,
                  responseCompletionTimeout, reprocessTimers, timersPending,
                  isProcessingAudioResponse, audioResponseQueue, convVars,
                  responses, tasks, lanes, turnsIssued, sentTurns, upTurn,
                  fragsEmitted, failuresArmed, stalls, profile, idle, burst >>

\* session.interrupt() settles and handleInterruption resumes
interruptSettles(p, ok) ==
  /\ NoTimerOverdue
  /\ p \in pendingInterrupt
  /\ pendingInterrupt' = pendingInterrupt \ {p}
  /\ interruptThrew' = IF ok THEN interruptThrew ELSE interruptThrew \cup {p.intr}
  /\ log' = log \o << IEv(interruptReply(ok), p.sess, p.intr),
                      IEv("interruption-handled", p.sess, p.intr) >>
  /\ sessions' = recordInterruption(sessions, p.sess)
  /\ UNCHANGED << codecVars, limiterVars, ownVars, outageVars, waitVars, sessVars, upVars, accVars, convVars, activeSessions,
                  responses, tasks, lanes, envVars >>

\* the event loop is busy for StallUnits while timers are pending: the lane
\* and loop timers are overdue, and so is the completion timer behind them
eventLoopStalls ==
  /\ profile = "stalls"
  /\ stalls < MaxStalls
  /\ NoTimerOverdue
  /\ responseCompletionTimeout = "armed"
  /\ ShortTimersPending
  /\ stalls' = stalls + 1
  /\ idle' = (idle \/ StallUnits >= timeoutUnits)
  /\ Commit(Later(St(0), StallUnits))
  /\ responseCompletionTimeout' = "due"
  /\ UNCHANGED << codecVars, limiterVars, ownVars, outageVars, waitVars, intrVars, sessVars, upVars, currentAudioResponse, reprocessTimers, timersPending,
                  isProcessingAudioResponse, audioResponseQueue, audioQueue,
                  convVars, turnsIssued, sentTurns, upTurn, fragsEmitted,
                  interruptedTurns, interrupts, failuresArmed, profile, burst >>

\* endConversation()
endConversation(cs) ==
  [isActive |-> FALSE, turnCount |-> 0, isInterrupted |-> FALSE,
   systemPromptSent |-> FALSE]

\* socket 'end-conversation'; endSession() removes the session from
\* SessionManager
handleEndConversation(sock) ==
  /\ NoTimerOverdue
  /\ socketToSession[sock] # 0
  /\ ends < EndBudget(profile)
  /\ ends' = ends + 1
  /\ conversationState' = endConversation(conversationState)
  /\ activeSessions' = [x \in DOMAIN activeSessions \ {socketToSession[sock]} |->
                          activeSessions[x]]
  /\ sessions' = [x \in DOMAIN sessions \ {socketToSession[sock]} |-> sessions[x]]
  /\ socketToSession' = [socketToSession EXCEPT ![sock] = 0]
  /\ UNCHANGED << codecVars, limiterVars, waitVars, outageVars, turnOwner, statusEvents, audioIn, pendingInterrupt,
                  interruptThrew, nextSessionId, upVars, accVars,
                  interruptResetTimers, responses, tasks, lanes, log, envVars >>

\* socket 'disconnect' of a socket that has a session: the handler of
\* SocketServerLive calls sessionManager.handleSocketDisconnect
socketDisconnect(sock) ==
  /\ profile = "departures"
  /\ NoTimerOverdue
  /\ Cardinality(DOMAIN activeSessions \ Reachable) < MaxDisconnects
  /\ socketToSession[sock] # 0
  /\ socketToSession[sock] \in Reachable
  /\ activeSessions' = [activeSessions EXCEPT ![socketToSession[sock]].connected = FALSE]
  /\ endSession({socketToSession[sock]})
  /\ UNCHANGED << codecVars, limiterVars, waitVars, outageVars, ownVars, pendingInterrupt,
                  interruptThrew, upVars, accVars, convVars,
                  responses, tasks, lanes, log, envVars >>

\* attemptReconnection() starts a reconnect
Reconnects(tooSoon) == ~limitReached(reconnectAttempts) /\ ~tooSoon

\* attemptReconnection(), called with a conversation active: at the limit it
\* ends the conversation; less than minReconnectInterval after the attempt
\* before (tooSoon) it returns; otherwise it counts the attempt and runs
\* reconnect() up to its await of initSession() (closeSession() ends the
\* conversation and drops the session; its await of session.close() is
\* settled within the task)
attemptReconnection(tooSoon) ==
  IF limitReached(reconnectAttempts)
  THEN /\ conversationState' = endConversation(conversationState)
       /\ refusals' = refusals + 1
       /\ UNCHANGED << session, reconnecting, reconnectAttempts, reconnected >>
  ELSE IF tooSoon
  THEN UNCHANGED << conversationState, session, reconnecting, reconnectAttempts,
                    reconnected, refusals >>
  ELSE /\ reconnectAttempts' = reconnectAttempts + 1
       /\ reconnected' = TRUE
       /\ conversationState' = endConversation(conversationState)
       /\ session' = FALSE
       /\ reconnecting' = reconnecting + 1
       /\ UNCHANGED refusals

\* the callbacks onerror and onclose (with a reason other than quota) of
\* initSession: with a conversation active they call attemptReconnection();
\* the closed session sends nothing more
upstreamCloses(tooSoon) ==
  /\ Failing(profile)
  /\ NoTimerOverdue
  /\ session /\ isConnected
  /\ closes < MaxCloses
  /\ tooSoon => reconnected
  /\ closes' = closes + 1
  /\ closedAt' = IF closes = 0
                 THEN [frags |-> fragsEmitted, responses |-> Len(responses),
                       events |-> Len(log)]
                 ELSE closedAt
  /\ isConnected' = FALSE
  /\ openSessions' = openSessions - 1
  /\ upTurn' = IF sentTurns = {} THEN upTurn ELSE MaxOf(sentTurns) + 1
  /\ IF conversationState.isActive
     THEN attemptReconnection(tooSoon)
     ELSE UNCHANGED << conversationState, session, reconnecting, reconnectAttempts,
                       reconnected, refusals >>
  /\ UNCHANGED << codecVars, limiterVars, ownVars, intrVars, waitVars, sessVars, sessionFresh, pendingInit,
                  minuteCount, accVars, interruptResetTimers, delivVars, retryTimers,
                  turnsIssued, sentTurns, fragsEmitted, interruptedTurns,
                  interrupts, failuresArmed, stalls, profile, idle, burst >>

\* initSession() of reconnect() settles: onopen when it succeeds; when it
\* fails, attemptReconnection sets its retry timer
reconnectDone(ok) ==
  /\ reconnecting > 0
  /\ NoTimerOverdue
  /\ reconnecting' = reconnecting - 1
  /\ IF ok
     THEN /\ session' = TRUE
          /\ isConnected' = TRUE
          /\ openSessions' = openSessions + 1
          /\ reconnectAttempts' = onopen(reconnectAttempts)
          /\ UNCHANGED retryTimers
     ELSE /\ retryTimers' = retryTimers + 1
          /\ UNCHANGED << session, isConnected, openSessions, reconnectAttempts >>
  /\ UNCHANGED << codecVars, limiterVars, ownVars, intrVars, waitVars, sessVars, sessionFresh, pendingInit,
                  minuteCount, accVars, convVars, delivVars, envVars, closes,
                  closedAt, reconnected, refusals >>

\* the retry timer of attemptReconnection runs: with a conversation active
\* it calls attemptReconnection() again, whose closeSession() closes the
\* upstream session if one has been opened since
retryTimerFire(tooSoon) ==
  /\ retryTimers > 0
  /\ NoTimerOverdue
  /\ retryTimers' = retryTimers - 1
  /\ IF conversationState.isActive
     THEN /\ attemptReconnection(tooSoon)
          /\ IF Reconnects(tooSoon) /\ session
             THEN /\ isConnected' = FALSE
                  /\ openSessions' = IF isConnected THEN openSessions - 1 ELSE openSessions
                  /\ upTurn' = IF sentTurns = {} THEN upTurn ELSE MaxOf(sentTurns) + 1
             ELSE UNCHANGED << isConnected, openSessions, upTurn >>
     ELSE /\ tooSoon = FALSE
          /\ UNCHANGED << conversationState, session, reconnecting, reconnectAttempts,
                          reconnected, refusals, isConnected, openSessions, upTurn >>
  /\ UNCHANGED << codecVars, limiterVars, ownVars, intrVars, waitVars, sessVars, sessionFresh, pendingInit,
                  minuteCount, accVars, interruptResetTimers, delivVars, closes, closedAt,
                  turnsIssued, sentTurns, fragsEmitted, interruptedTurns,
                  interrupts, failuresArmed, stalls, profile, idle, burst >>

\* upstream pauses for GapMs, just short of timeoutDuration, while the
\* completion timer is armed: the 100 ms and 1000 ms timers and the lane
\* timers have run by then, the completion timer has not
upstreamPauses ==
  /\ profile = "stream"
  /\ responseCompletionTimeout = "armed"
  /\ ~wait.sinceLast
  /\ ~ShortTimersPending
  /\ reprocessTimers = 0
  /\ interruptResetTimers = 0
  /\ wait' = [gaps |-> wait.gaps + 1, sinceLast |-> TRUE]
  /\ UNCHANGED << codecVars, limiterVars, ownVars, outageVars, intrVars, sessVars, upVars, accVars, convVars,
                  delivVars, envVars >>

\* the 1000 ms timer of handleServerMessage
interruptResetFire ==
  /\ interruptResetTimers > 0
  /\ LongTimerRuns(FALSE)
  /\ responseCompletionTimeout # "due"
  /\ interruptResetTimers' = interruptResetTimers - 1
  /\ conversationState' = [conversationState EXCEPT !.isInterrupted = FALSE]
  /\ UNCHANGED << codecVars, limiterVars, ownVars, outageVars, waitVars, intrVars, sessVars, upVars, accVars, delivVars, envVars >>

\* the timer of scheduleResponseCompletion (tracked), or the 100 ms timer of
\* the finally block of completeAudioResponse, fires
completionTimerFire(tracked, f) ==
  /\ IF tracked
     THEN /\ responseCompletionTimeout # "none"
          /\ LongTimerRuns(responseCompletionTimeout = "due")
     ELSE /\ reprocessTimers > 0
          /\ LongTimerRuns(FALSE)
          /\ responseCompletionTimeout # "due"
  /\ completeAudioResponse(tracked, f,
                           idle \/ (tracked /\ responseCompletionTimeout = "armed"))
  /\ idle' = (idle \/ (tracked /\ responseCompletionTimeout = "armed"))
  /\ failuresArmed' = failuresArmed + (IF f > 0 THEN 1 ELSE 0)
  /\ UNCHANGED << codecVars, limiterVars, ownVars, outageVars, waitVars, intrVars, sessVars, upVars, convVars, turnsIssued, sentTurns,
                  upTurn, fragsEmitted, interruptedTurns, interrupts, stalls, profile >>

\* what a lane or loop timer leaves alone
shortTimerPasses(f) ==
  /\ responseCompletionTimeout = "due" => NextExpiry < 0
  /\ failuresArmed' = failuresArmed + (IF f > 0 THEN 1 ELSE 0)
  /\ UNCHANGED << codecVars, limiterVars, ownVars, outageVars, waitVars, intrVars, sessVars, upVars, accVars, convVars, turnsIssued,
                  sentTurns, upTurn, fragsEmitted, interruptedTurns, interrupts,
                  stalls, profile, idle, burst >>

\* a lane of streamChunksMultiport resumes
laneTimerFire(l, f) ==
  /\ l \in lanes
  /\ l.due = NextExpiry
  /\ Commit(LaneStep(Later(St(f), Elapse), [l EXCEPT !.due = @ - Elapse]))
  /\ shortTimerPasses(f)

\* the loop of streamChunksSequential resumes
sequentialTimerFire(r, f) ==
  /\ r \in DOMAIN tasks
  /\ tasks[r].mode = "seq"
  /\ tasks[r].due = NextExpiry
  /\ Commit(streamChunksSequential(Later(St(f), Elapse), r, tasks[r].sess,
                                   tasks[r].n, tasks[r].i))
  /\ shortTimerPasses(f)

NoOutput == [done |-> FALSE, returned |-> FALSE, chunks |-> <<>>]

InitProtocol ==
  /\ profile \in Profiles
  /\ socketToSession = [s \in SocketsOf(profile) |-> 0]
  /\ nextSessionId = 1
  /\ activeSessions = << >>
  /\ session = FALSE
  /\ isConnected = FALSE
  /\ sessionFresh = FALSE
  /\ openSessions = 0
  /\ pendingInit = {}
  /\ minuteCount = 0
  /\ currentAudioResponse = EmptyResponse
  /\ responseCompletionTimeout = "none"
  /\ reprocessTimers = 0
  /\ timersPending = 0
  /\ isProcessingAudioResponse = FALSE
  /\ audioResponseQueue = <<>>
  /\ audioQueue = <<>>
  /\ conversationState = [isActive |-> FALSE, turnCount |-> 0, isInterrupted |-> FALSE,
                          systemPromptSent |-> FALSE]
  /\ interruptResetTimers = 0
  /\ responses = <<>>
  /\ tasks = << >>
  /\ lanes = {}
  /\ log = <<>>
  /\ turnsIssued = 0
  /\ sentTurns = {}
  /\ upTurn = 0
  /\ fragsEmitted = 0
  /\ interruptedTurns = {}
  /\ interrupts = 0
  /\ failuresArmed = 0
  /\ stalls = 0
  /\ idle = TRUE
  /\ burst = <<>>
  /\ wait = NoWait
  /\ turnOwner = <<>>
  /\ ends = 0
  /\ statusEvents = <<>>
  /\ audioIn = <<>>
  /\ reconnecting = 0
  /\ connectionAttempts = [ip \in IPs |-> <<>>]
  /\ now = 0
  /\ accepted = [ip \in IPs |-> <<>>]
  /\ connections = [ip \in IPs |-> 0]
  /\ reconnectAttempts = 0
  /\ reconnected = FALSE
  /\ retryTimers = 0
  /\ refusals = 0
  /\ closes = 0
  /\ closedAt = NotClosed
  /\ sessions = << >>
  /\ pendingInterrupt = {}
  /\ interruptThrew = {}

Init ==
  /\ codecIn = NoInput
  /\ codecOut = NoOutput
  /\ InitProtocol

Next ==
  \/ \E sock \in SocketsOf(profile) : handleStartConversation(sock)
  \/ \E sock \in SocketsOf(profile) : socketDisconnect(sock)
  \/ \E sock \in SocketsOf(profile), sendOk \in CallOutcomes(profile) : handleTextInput(sock, sendOk)
  \/ \E sock \in SocketsOf(profile), isLastChunk \in BOOLEAN, sendOk \in BOOLEAN :
       handleAudioChunk(sock, isLastChunk, sendOk)
  \/ \E p \in pendingInit, ok \in CallOutcomes(profile), sendOk \in CallOutcomes(profile) :
       initSessionDone(p, ok, sendOk)
  \/ \E t \in 1..MaxTurns, len \in FragLens(profile) : upstreamAudio(t, len)
  \/ upstreamInterrupted
  \/ \E sock \in SocketsOf(profile), threw \in InterruptThrows(profile) : handleInterruption(sock, threw)
  \/ \E p \in pendingInterrupt, ok \in BOOLEAN : interruptSettles(p, ok)
  \/ eventLoopStalls
  \/ upstreamPauses
  \/ \E tooSoon \in BOOLEAN : upstreamCloses(tooSoon)
  \/ \E sock \in SocketsOf(profile) : handleEndConversation(sock)
  \/ \E ok \in BOOLEAN : reconnectDone(ok)
  \/ \E tooSoon \in BOOLEAN : retryTimerFire(tooSoon)
  \/ interruptResetFire
  \/ \E tracked \in BOOLEAN, f \in FailChoices : completionTimerFire(tracked, f)
  \/ \E l \in lanes, f \in FailChoices : laneTimerFire(l, f)
  \/ \E r \in DOMAIN tasks, f \in FailChoices : sequentialTimerFire(r, f)

Spec == Init /\ [][Next]_vars

(***************************************************************************)
(* SpecCodec: the byte-level functions applied to inputs drawn from        *)
(* bounded sets.                                                           *)
(***************************************************************************)
BytesUpTo(n) == UNION {[1..k -> ByteVals] : k \in 0..n}

SeqsUpTo(S, n) == UNION {[1..k -> S] : k \in 0..n}

\* chunk sizes around the header length, 0 standing for "none given"
SplitSizes == 0..MaxStep \cup (WavHeaderLen..(WavHeaderLen + MaxStep))

SplitInputs ==
  {[op |-> "split", wav |-> w, data |-> d, raws |-> <<>>, chunkSize |-> c] :
     w \in BOOLEAN, d \in BytesUpTo(MaxData), c \in SplitSizes}

CombineInputs ==
  {[op |-> "combine", wav |-> TRUE, data |-> <<>>, raws |-> r, chunkSize |-> 0] :
     r \in SeqsUpTo(BytesUpTo(MaxFragData), MaxMerge)}

\* the complete response handed to splitAudioIntoChunks
SplitAudioData(in) ==
  IF in.wav THEN toBase64(createWAVFile(in.data, 48000, 1, 16)) ELSE toBase64(in.data)

\* the fragments as handleServerMessage buffers them
CombineChunks(in) == [k \in 1..Len(in.raws) |-> processAudioResponse(toBase64(in.raws[k]))]

DistributeInputs ==
  {[op |-> "distribute", chunks |-> M, ports |-> L] :
     M \in 0..MaxLaneChunks, L \in 1..MaxLanes}

\* complete responses, 48 kHz mono WAV as combineAudioChunks leaves them
ChunkSizeInputs ==
  {[op |-> "chunkSize", sampleRate |-> 48000, dataLen |-> k * DurationStepBytes] :
     k \in 0..MaxDurationSteps}

\* speech rates are in hundredths: 80 is 0.8
MaxRate == 250
SpeechRateInputs == {[op |-> "speechRate", rate |-> r] : r \in 0..MaxRate}

InitCodec ==
  /\ codecIn \in SplitInputs \cup CombineInputs \cup DistributeInputs \cup ChunkSizeInputs
                 \cup SpeechRateInputs
  /\ codecOut = NoOutput
  /\ InitProtocol

codecSplit ==
  /\ codecIn.op = "split"
  /\ ~codecOut.done
  /\ codecOut' =
       IF splitReturns(SplitAudioData(codecIn), codecIn.chunkSize)
       THEN [done |-> TRUE, returned |-> TRUE,
             chunks |-> splitAudioIntoChunks(SplitAudioData(codecIn), codecIn.chunkSize)]
       ELSE [done |-> TRUE, returned |-> FALSE, chunks |-> <<>>]
  /\ UNCHANGED << codecIn, limiterVars, ownVars, outageVars, waitVars, intrVars, sessVars, upVars, accVars, convVars, delivVars, envVars >>

codecCombine ==
  /\ codecIn.op = "combine"
  /\ ~codecOut.done
  /\ codecOut' = [done |-> TRUE, returned |-> TRUE,
                  chunks |-> << combineAudioChunks(CombineChunks(codecIn)) >>]
  /\ UNCHANGED << codecIn, limiterVars, ownVars, outageVars, waitVars, intrVars, sessVars, upVars, accVars, convVars, delivVars, envVars >>

codecDistribute ==
  /\ codecIn.op = "distribute"
  /\ ~codecOut.done
  /\ codecOut' = [done |-> TRUE, returned |-> TRUE,
                  chunks |-> portChunks(codecIn.chunks, codecIn.ports)]
  /\ UNCHANGED << codecIn, limiterVars, ownVars, outageVars, waitVars, intrVars, sessVars, upVars, accVars, convVars, delivVars, envVars >>

codecChunkSize ==
  /\ codecIn.op = "chunkSize"
  /\ ~codecOut.done
  /\ codecOut' = [done |-> TRUE, returned |-> TRUE,
                  chunks |-> << calculateOptimalChunkSize(codecIn) >>]
  /\ UNCHANGED << codecIn, limiterVars, ownVars, outageVars, waitVars, intrVars, sessVars, upVars, accVars, convVars, delivVars, envVars >>

\* conversationState.speechRate of the constructor; startConversation and
\* endConversation copy it, nothing assigns it
conversationStateSpeechRate == 80
MinSpeechRate == 30
MaxSpeechRate == 200

\* setSpeechRate: the value it stores in this.speechRate
setSpeechRate(rate) == Max(MinSpeechRate, Min(MaxSpeechRate, rate))

\* initSession: the speakingRate of the session it opens, taken from
\* conversationState.speechRate (0.8 when that is not set); this.speechRate
\* is not read
speakingRate(thisSpeechRate, csSpeechRate) ==
  IF csSpeechRate # 0 THEN csSpeechRate ELSE 80

\* setSpeechRate(rate): closeSession, store the rate, initSession
codecSpeechRate ==
  /\ codecIn.op = "speechRate"
  /\ ~codecOut.done
  /\ codecOut' = [done |-> TRUE, returned |-> TRUE,
                  chunks |-> << setSpeechRate(codecIn.rate),
                                speakingRate(setSpeechRate(codecIn.rate),
                                             conversationStateSpeechRate) >>]
  /\ UNCHANGED << codecIn, limiterVars, ownVars, outageVars, waitVars, intrVars, sessVars, upVars, accVars, convVars, delivVars, envVars >>

NextCodec == codecSplit \/ codecCombine \/ codecDistribute \/ codecChunkSize \/ codecSpeechRate

SpecCodec == InitCodec /\ [][NextCodec]_vars

(***************************************************************************)
(* SpecManager: SessionManager on its own, driven by any sequence of calls *)
(* of its methods.                                                         *)
(***************************************************************************)
NotLimiter == << sessVars, upVars, accVars, convVars, delivVars, envVars,
                 intrVars, waitVars, outageVars, ownVars >>

NotManager == << codecVars, limiterVars, upVars, accVars, convVars, delivVars, envVars,
                 pendingInterrupt, interruptThrew, waitVars, outageVars, ownVars >>

\* SessionManager.createSession(socketId): a new Session, entered in both maps
managerCreateSession(sock) ==
  /\ nextSessionId <= MaxManagerSessions
  /\ sessions' = [x \in DOMAIN sessions \cup {nextSessionId} |->
                    IF x = nextSessionId
                    THEN [status |-> "initialized", socketId |-> sock]
                    ELSE sessions[x]]
  /\ socketToSession' = [socketToSession EXCEPT ![sock] = nextSessionId]
  /\ nextSessionId' = nextSessionId + 1
  /\ UNCHANGED NotManager

\* session.updateStatus('active'), as the handlers call it on a session
managerUpdateStatus(sid) ==
  /\ sid \in DOMAIN sessions
  /\ sessions[sid].status # "active"
  /\ sessions' = updateStatus(sessions, sid, "active")
  /\ UNCHANGED << sessVars, NotManager >>

\* SessionManager.endSession(sessionId)
managerEndSession(sid) ==
  /\ getSession(sid) # 0
  /\ endSession({sid})
  /\ UNCHANGED NotManager

\* SessionManager.handleSocketDisconnect(socketId)
handleSocketDisconnect(sock) ==
  /\ socketToSession[sock] # 0
  /\ getSession(socketToSession[sock]) # 0
  /\ endSession({socketToSession[sock]})
  /\ UNCHANGED NotManager

\* SessionManager.cleanupInactiveSessions: stale are the sessions idle for
\* longer than the threshold; those of them that are not active are ended
cleanupInactiveSessions(stale) ==
  /\ {x \in stale : sessions[x].status # "active"} # {}
  /\ endSession({x \in stale : sessions[x].status # "active"})
  /\ UNCHANGED NotManager

NextManager ==
  \/ \E sock \in DOMAIN socketToSession : managerCreateSession(sock)
  \/ \E sid \in DOMAIN sessions : managerUpdateStatus(sid)
  \/ \E sock \in DOMAIN socketToSession : handleSocketDisconnect(sock)
  \/ \E sid \in DOMAIN sessions : managerEndSession(sid)
  \/ \E stale \in SUBSET DOMAIN sessions : cleanupInactiveSessions(stale)

SpecManager == Init /\ [][NextManager]_vars

\* the raw sample region of a buffer: what follows the 44-byte header of a WAV
\* buffer, the whole of a headerless one
RawSampleRegion(buf, wav) == IF wav THEN Slice(buf, WavHeaderLen, Len(buf)) ELSE buf

ChunkRegions ==
  ConcatAll([k \in 1..Len(codecOut.chunks) |->
               RawSampleRegion(BufferFromBase64(codecOut.chunks[k]), codecIn.wav)])

C3_SplitLosslessWhenItReturns ==
  (codecOut.done /\ codecIn.op = "split" /\ codecOut.returned) =>
     ChunkRegions = codecIn.data

\* a WAV response split into several chunks, the last one shorter
C3_SplitDone ==
  /\ codecOut.done /\ codecIn.op = "split" /\ codecIn.wav
  /\ Len(codecOut.chunks) = 2
  /\ Len(codecIn.data) = 3

\* the merged response carries the fragments' payloads in arrival order
CombineKeepsPayloads ==
  (codecOut.done /\ codecIn.op = "combine" /\ codecIn.raws # <<>>) =>
     RawSampleRegion(BufferFromBase64(codecOut.chunks[1]), TRUE) = ConcatAll(codecIn.raws)

(***************************************************************************)
(* The claims about the event loop, stated over the log of emitted events. *)
(***************************************************************************)
Is(i, type, r, sid) ==
  log[i].type = type /\ log[i].resp = r /\ log[i].sess = sid

ChunkEvents(r, sid) == {i \in 1..Len(log) : Is(i, "audio-chunk", r, sid)}
CompleteEvents(r, sid) == {i \in 1..Len(log) : Is(i, "audio-complete", r, sid)}
Responses == 1..Len(responses)
SessionIds == DOMAIN activeSessions

\* the user inputs a response answers
TurnsOf(r) == {responses[r].frags[k].turn : k \in 1..Len(responses[r].frags)}

\* C1: once a user interrupt has been handled for a session, no further
\* audio-chunk of the response that was being delivered to it at that moment
\* (begun, not yet completed) is emitted to that session.
C1_NoChunkAfterUserInterrupt ==
  \A i \in 1..Len(log) :
    log[i].type = "interruption-handled" =>
      \A r \in Responses :
        ( /\ \E k \in ChunkEvents(r, log[i].sess) : k < i
          /\ \A k \in CompleteEvents(r, log[i].sess) : k > i )
        => \A j \in ChunkEvents(r, log[i].sess) : j < i

\* C2: no audio-chunk of a later response is emitted to a session while an
\* earlier response, whose delivery to that session has begun, has neither
\* had its audio-complete emitted nor been interrupted.
C2_ResponsesDeliveredInTurn ==
  \A r2 \in Responses, sid \in SessionIds :
    \A j \in ChunkEvents(r2, sid) :
      \A r1 \in 1..(r2 - 1) :
        (\E k \in ChunkEvents(r1, sid) : k < j) =>
          \/ \E m \in CompleteEvents(r1, sid) : m < j
          \/ \E m \in 1..(j - 1) :
               /\ log[m].type \in {"interruption-handled", "interruption"}
               /\ log[m].sess = sid
               /\ \E k \in ChunkEvents(r1, sid) : k < m

FragIds(fs) == {fs[k].k : k \in 1..Len(fs)}

\* C4: the fragments that arrive with gaps shorter than the idle timeout go
\* into exactly one response, which holds all of them in the order of their
\* arrival and is produced no earlier than the idle timeout after the last
\* of them; while fragments are pending, the timer that produces it is armed.
C4_IdleTimeoutCompletion ==
  /\ \A r \in Responses :
       /\ responses[r].frags = responses[r].burst
       /\ responses[r].frags # <<>>
       /\ responses[r].idle
  /\ \A r1, r2 \in Responses :
       r1 # r2 => FragIds(responses[r1].frags) \cap FragIds(responses[r2].frags) = {}
  /\ currentAudioResponse.chunks = burst
  /\ burst # <<>> => responseCompletionTimeout # "none"
  /\ responseCompletionTimeout = "due" => idle

\* a response merged from two fragments has been produced
C4_TwoFragmentsMerged ==
  \E r \in Responses : Len(responses[r].frags) = 2

\* C5: the audio-chunk events of one response of N chunks carry pairwise
\* distinct chunkIndex values, all carry totalChunks = N, and once the response
\* is complete the indexes are exactly 0..N-1.
C5_IndexesRebuildResponse ==
  \A r \in Responses, sid \in SessionIds :
    LET N == NumChunks(responses[r].audio)
    IN /\ \A i, j \in ChunkEvents(r, sid) :
            i # j => log[i].chunkIndex # log[j].chunkIndex
       /\ \A i \in ChunkEvents(r, sid) : log[i].totalChunks = N
       /\ CompleteEvents(r, sid) # {} =>
            {log[i].chunkIndex : i \in ChunkEvents(r, sid)} = 0..(N - 1)

\* C6: a response delivered to a session gets at most one audio-complete, no
\* audio-chunk of it follows the audio-complete, and the audio-complete's
\* totalChunks is the number of audio-chunk events emitted for the response
\* (also for a response of zero chunks or one chunk).
C6_OneCompleteCountingChunks ==
  \A r \in Responses, sid \in SessionIds :
    /\ Cardinality(CompleteEvents(r, sid)) <= 1
    /\ \A c \in CompleteEvents(r, sid) :
         /\ \A i \in ChunkEvents(r, sid) : i < c
         /\ log[c].totalChunks = Cardinality(ChunkEvents(r, sid))

LaneFailed(r, sid) ==
  \E i \in 1..Len(log) : Is(i, "emit-failed", r, sid) /\ log[i].portId >= 0

\* C7: when a lane's transmission failed, no chunk of the response is emitted
\* twice, and once the response is complete every chunk has been emitted.
C7_FallbackSendsEachChunkOnce ==
  \A r \in Responses, sid \in SessionIds :
    LaneFailed(r, sid) =>
      /\ \A i, j \in ChunkEvents(r, sid) :
           i # j => log[i].audioData # log[j].audioData
      /\ CompleteEvents(r, sid) # {} =>
           {log[i].audioData : i \in ChunkEvents(r, sid)}
             = 0..(NumChunks(responses[r].audio) - 1)

AccumulatorEmpty ==
  /\ currentAudioResponse.chunks = <<>>
  /\ audioResponseQueue = <<>>
  /\ responseCompletionTimeout = "none"

\* C8: every interruption, from the user or from upstream, leaves the
\* accumulator empty: no pending fragment, no queued response, no timer armed.
C8_InterruptionEmptiesAccumulator ==
  [][interrupts' # interrupts => AccumulatorEmpty']_vars

\* C9: a fragment of an interrupted turn that arrives after the interruption
\* is never in the pending buffer once a later user input has been sent, and
\* never in a response of which an audio-chunk is emitted.
C9_LateFragmentsDropped ==
  /\ \A k \in 1..Len(currentAudioResponse.chunks) :
       currentAudioResponse.chunks[k].late =>
         \A t \in sentTurns : t <= currentAudioResponse.chunks[k].turn
  /\ \A i \in 1..Len(log) :
       log[i].type = "audio-chunk" =>
         \A k \in 1..Len(responses[log[i].resp].frags) :
           ~responses[log[i].resp].frags[k].late

\* C10: a response that answers only user inputs sent after a user interrupt
\* is not skipped on account of that interrupt.
C10_LaterTurnNotSkipped ==
  \A i, j \in 1..Len(log) :
    ( /\ i < j
      /\ log[i].type = "interruption-handled"
      /\ log[j].type = "skip"
      /\ log[j].sess = log[i].sess )
    => \E t \in TurnsOf(log[j].resp) : t <= log[i].turn

\* nothing is pending inside the server: no timer, no suspended handler
ServerQuiescent ==
  /\ ~ShortTimersPending
  /\ responseCompletionTimeout = "none"
  /\ reprocessTimers = 0
  /\ interruptResetTimers = 0
  /\ pendingInit = {}
  /\ pendingInterrupt = {}

InterruptedMarkers ==
  {<< "conversationState", 0 >> : x \in {y \in {0} : conversationState.isInterrupted}}
  \cup {<< "sessionInfo", sid >> : sid \in {x \in DOMAIN activeSessions :
                                               activeSessions[x].isInterrupted}}
  \cup {<< "status", sid >> : sid \in {x \in DOMAIN sessions :
                                          sessions[x].status = "interrupted"}}

\* C11: every interrupted marker returns to its non-interrupted value by
\* itself: whenever one is set, something inside the server is still pending
\* (once nothing is pending, only a client event or an upstream message can
\* change a marker).
C11_MarkersClearThemselves ==
  ServerQuiescent => InterruptedMarkers = {}

Intr(i, type, n) == log[i].type = type /\ log[i].intr = n
InterruptEvents(n) ==
  {i \in 1..Len(log) : "intr" \in DOMAIN log[i] /\ log[i].intr = n}
UserInterrupts == {log[i].intr : i \in {j \in 1..Len(log) : "intr" \in DOMAIN log[j]}}

\* C12: for every interrupt of a socket with a session, interruption-confirmed
\* is the first event emitted, interruption-handled follows unless the upstream
\* interrupt call is still pending, and when that call threw,
\* interruption-partial lies between the two and interruption-successful is
\* not emitted.
C12_InterruptConfirmedThenHandled ==
  \A n \in UserInterrupts :
    LET evs == InterruptEvents(n)
        first == CHOOSE i \in evs : \A j \in evs : i <= j
        last == CHOOSE i \in evs : \A j \in evs : j <= i
        settled == \A p \in pendingInterrupt : p.intr # n
    IN /\ Intr(first, "interruption-confirmed", n)
       /\ \A i \in evs \ {first} : ~Intr(i, "interruption-confirmed", n)
       /\ settled => Intr(last, "interruption-handled", n)
       /\ \A i \in evs \ {last} : ~Intr(i, "interruption-handled", n)
       /\ n \in interruptThrew =>
            /\ \E i \in evs : first < i /\ i < last /\ Intr(i, "interruption-partial", n)
            /\ \A i \in evs : ~Intr(i, "interruption-successful", n)

\* an interrupt whose upstream call threw has been handled
C12_ThrowingInterruptHandled ==
  \E n \in interruptThrew :
    \E i \in 1..Len(log) : Intr(i, "interruption-handled", n)

\* C13: a pending response is completed within a ceiling counted from its
\* first fragment, however upstream spaces the later fragments: while it is
\* still pending, the pauses since its first fragment add up to no more than
\* CeilingMs.
C13_CeilingForcesCompletion ==
  burst # <<>> => wait.gaps * GapMs <= CeilingMs

\* C14: after the upstream session closed or failed, no audio-chunk is emitted
\* of a response that was completed after that and holds a fragment received
\* before it.
C14_NoChunkFromFragmentsBeforeClose ==
  \A i \in 1..Len(log) :
    ( /\ closes > 0
      /\ i > closedAt.events
      /\ log[i].type = "audio-chunk"
      /\ log[i].resp > closedAt.responses )
    => \A k \in 1..Len(responses[log[i].resp].frags) :
         responses[log[i].resp].frags[k].k > closedAt.frags

\* the user inputs that were not forwarded upstream
FailedTurns ==
  {t \in 1..turnsIssued : t \notin sentTurns /\ \A p \in pendingInit : p.turn # t}

\* C15: for every user input that could not be forwarded, the session's
\* client is sent a fallback response (audio or text) for it.
C15_FallbackForFailedInput ==
  \A t \in FailedTurns :
    \E i \in 1..Len(log) :
      /\ log[i].turn = t
      /\ log[i].sess = turnOwner[t]
      /\ log[i].type \in {"audio-chunk", "audio-complete", "text-response"}

\* an input that is sent for one session leaves the pending response to an
\* input of another session alone
NoForeignDiscard ==
  \A t \in sentTurns' \ sentTurns :
    (burst # <<>> /\ turnOwner'[t] # turnOwner[burst[1].turn]) => burst' = burst

\* an end-conversation that leaves other sessions leaves the conversation
\* state active
NoForeignEnd ==
  (ends' # ends /\ conversationState.isActive /\ DOMAIN activeSessions' # {})
    => conversationState'.isActive

\* once a response of several chunks is complete for one session, the
\* delivery to every other session it goes to has begun
NoDeliveryWait ==
  \A r \in Responses, s1 \in SessionIds, s2 \in SessionIds :
    (s1 # s2 /\ NumChunks(responses[r].audio) > 1 /\ ChunkEvents(r, s2) # {}) =>
      \A c \in CompleteEvents(r, s1) : \E j \in ChunkEvents(r, s2) : j < c

\* C16: conversations do not affect each other: an input of one session does
\* not discard the pending response of another, an end-conversation of one
\* does not end the conversation state of the others, and the delivery of a
\* response to one session does not wait for the delivery to another.
C16_SessionsIndependent ==
  [][NoForeignDiscard /\ NoForeignEnd /\ NoDeliveryWait']_vars


HeaderFor(buf, src) ==
  /\ Len(buf) >= WavHeaderLen
  /\ readUInt32LE(buf, 4) = 36 + (Len(buf) - WavHeaderLen)
  /\ readUInt32LE(buf, 40) = Len(buf) - WavHeaderLen
  /\ \A i \in (1..4) \cup (9..40) : buf[i] = src[i]

\* C18: every chunk re-wrapped by splitAudioIntoChunks and every response
\* merged by combineAudioChunks has a 44-byte header whose file-size field is
\* 36 + payload length, whose data-size field is the payload length, and whose
\* other bytes are those of the source header.
C18_HeadersRewritten ==
  /\ (codecOut.done /\ codecIn.op = "split" /\ codecIn.wav /\ codecOut.returned) =>
       \A k \in 1..Len(codecOut.chunks) :
         HeaderFor(BufferFromBase64(codecOut.chunks[k]),
                   BufferFromBase64(SplitAudioData(codecIn)))
  /\ (codecOut.done /\ codecIn.op = "combine" /\ codecIn.raws # <<>>) =>
       HeaderFor(BufferFromBase64(codecOut.chunks[1]),
                 BufferFromBase64(CombineChunks(codecIn)[1]))

\* two fragments with payload have been merged
C18_TwoPayloadsMerged ==
  /\ codecOut.done /\ codecIn.op = "combine"
  /\ Len(codecIn.raws) = 2
  /\ \A k \in 1..2 : codecIn.raws[k] # <<>>

\* C19: within each delivery lane the chunks of a response are emitted to a
\* session in strictly increasing chunk index.
C19_LaneIndexesIncrease ==
  \A r \in Responses, sid \in SessionIds :
    \A i, j \in ChunkEvents(r, sid) :
      (i < j /\ log[i].portId >= 0 /\ log[i].portId = log[j].portId)
        => log[i].chunkIndex < log[j].chunkIndex

\* a lane has emitted two chunks of a response
C19_LaneSentTwo ==
  \E r \in Responses, sid \in SessionIds :
    \E i, j \in ChunkEvents(r, sid) :
      i < j /\ log[i].portId >= 0 /\ log[i].portId = log[j].portId

\* the response lasts sec seconds
Lasts(in, sec) == in.dataLen = sec * in.sampleRate * 2

\* C20: for every response duration the chunk size of
\* calculateOptimalChunkSize is a duration within [minChunkDuration,
\* maxChunkDuration]; for 1.0 s it is at most 1.0 s, for 8.0 s between 1.5 s
\* and 2.5 s, for 20 s at most maxChunkDuration.
C20_ChunkDurationInRange ==
  (codecOut.done /\ codecIn.op = "chunkSize") =>
    LET size == codecOut.chunks[1]
    IN /\ size * 1000 >= minChunkDurationMs * bytesPerSecond
       /\ size * 1000 <= maxChunkDurationMs * bytesPerSecond
       /\ Lasts(codecIn, 1) => size * 1000 <= 1000 * bytesPerSecond
       /\ Lasts(codecIn, 8) =>
            /\ size * 1000 >= 1500 * bytesPerSecond
            /\ size * 1000 <= 2500 * bytesPerSecond
       /\ Lasts(codecIn, 20) => size * 1000 <= maxChunkDurationMs * bytesPerSecond

\* the chunk size of an 8.0 s response has been computed
C20_EightSeconds ==
  /\ codecOut.done /\ codecIn.op = "chunkSize"
  /\ Lasts(codecIn, 8)

\* C21: whenever the banded and clamped size plays longer than
\* maxLatencyTarget, calculateOptimalChunkSize returns the size of the target
\* clamped to [minChunkSize, maxChunkSize], otherwise the banded size; the
\* target not being below the minimum chunk duration, no size returned plays
\* longer than the target.
C21_LatencyTargetEnforced ==
  (codecOut.done /\ codecIn.op = "chunkSize") =>
    LET size == codecOut.chunks[1]
        banded == bandedChunkSize(codecIn)
        target == (maxLatencyTarget * bytesPerSecond) \div 1000
    IN /\ banded * 1000 > maxLatencyTarget * bytesPerSecond =>
            size = Max(minChunkSize, Min(maxChunkSize, target))
       /\ banded * 1000 <= maxLatencyTarget * bytesPerSecond => size = banded
       /\ maxLatencyTarget >= minChunkDurationMs =>
            size * 1000 <= maxLatencyTarget * bytesPerSecond

\* a size above the target has been reduced
C21_SizeReduced ==
  /\ codecOut.done /\ codecIn.op = "chunkSize"
  /\ bandedChunkSize(codecIn) * 1000 > maxLatencyTarget * bytesPerSecond
  /\ codecOut.chunks[1] < bandedChunkSize(codecIn)

\* C22: the user inputs forwarded upstream within one minute never exceed
\* requestsPerMinute, also when several sendTextInput calls are in flight
\* (no run of the model lasts a minute, so every input counts), and an
\* input made once the limit is reached is not sent upstream.
C22_QuotaNeverExceeded ==
  /\ Cardinality(sentTurns) <= requestsPerMinute
  /\ minuteCount <= requestsPerMinute

\* C23: 'start-conversation' is idempotent per socket: a socket never has
\* more than one session, and an event on a socket that has a session reports
\* that session's id, creates no session and leaves the conversation state
\* (turn count, system prompt sent) as it was.
OneSessionPerSocket ==
  \A sock \in DOMAIN socketToSession :
    Cardinality({x \in DOMAIN activeSessions : activeSessions[x].socket = sock}) <= 1

RepeatedStartKeeps ==
  \A sock \in DOMAIN socketToSession :
    (socketToSession[sock] # 0 /\ Len(statusEvents') = Len(statusEvents) + 1
       /\ statusEvents'[Len(statusEvents')].socket = sock)
    => /\ statusEvents'[Len(statusEvents')].sessionId = socketToSession[sock]
       /\ socketToSession' = socketToSession
       /\ nextSessionId' = nextSessionId
       /\ DOMAIN activeSessions' = DOMAIN activeSessions
       /\ DOMAIN sessions' = DOMAIN sessions
       /\ conversationState' = conversationState

C23_StartConversationIdempotent == [][OneSessionPerSocket' /\ RepeatedStartKeeps]_vars

\* 'start-conversation' has been repeated twice on a socket whose
\* conversation has turns
C23_StartRepeated ==
  /\ conversationState.turnCount > 0
  /\ \E i, j, k \in 1..Len(statusEvents) :
       /\ i < j /\ j < k
       /\ statusEvents[i] = statusEvents[j] /\ statusEvents[j] = statusEvents[k]

\* C24: in a continuous conversation every query is processed: once a
\* complete audio input of a session has been forwarded upstream, a later
\* 'audio-chunk' of that session is accepted (no interrupt, reset or
\* transcription occurs in the runs that have audio input).
C24_LaterAudioAccepted ==
  \A i, j \in 1..Len(audioIn) :
    (i < j /\ audioIn[i].sess = audioIn[j].sess /\ audioIn[i].sent) => ~audioIn[j].skipped

\* C25: a response is delivered only to the session whose input produced
\* it: every 'audio-chunk' event goes to the session that issued the inputs
\* which the fragments of its response answer.
C25_ResponseOnlyToItsSession ==
  \A i \in 1..Len(log) :
    log[i].type = "audio-chunk" =>
      \A k \in 1..Len(responses[log[i].resp].frags) :
        turnOwner[responses[log[i].resp].frags[k].turn] = log[i].sess

\* the sessions whose 'end-conversation' has been handled
EndedSessions == {sid \in 1..(nextSessionId - 1) : sid \notin DOMAIN activeSessions}

\* C26: after 'end-conversation' has been handled for a session, no step
\* emits an 'audio-chunk' or 'audio-complete' event for that session, also
\* when a delivery was in progress.
NoEventAfterEnd ==
  \A i \in (Len(log) + 1)..Len(log') :
    log'[i].sess \in EndedSessions => log'[i].type \notin {"audio-chunk", "audio-complete"}

C26_NoEventAfterEnd == [][NoEventAfterEnd]_vars

\* the 'audio-chunk' events of response r for session sid that carry
\* isLastChunk = true
LastChunkEvents(r, sid) == {i \in ChunkEvents(r, sid) : log[i].isLastChunk}

\* no response has two chunks marked last
OneLastChunk ==
  \A r \in Responses, sid \in 1..(nextSessionId - 1) :
    Cardinality(LastChunkEvents(r, sid)) <= 1

\* no chunk of a response is emitted after the chunk marked last
LastChunkIsLast ==
  \A r \in Responses, sid \in 1..(nextSessionId - 1) :
    \A l \in LastChunkEvents(r, sid), i \in ChunkEvents(r, sid) : i <= l

\* a response delivered completely has a chunk marked last
CompleteHasLastChunk ==
  \A r \in Responses, sid \in 1..(nextSessionId - 1) :
    (CompleteEvents(r, sid) # {} /\ NumChunks(responses[r].audio) >= 1) =>
      LastChunkEvents(r, sid) # {}

\* C27: for every response exactly one 'audio-chunk' carries isLastChunk =
\* true and it is the last 'audio-chunk' emitted for that response.
C27_OneLastChunkAtTheEnd == OneLastChunk /\ LastChunkIsLast /\ CompleteHasLastChunk

\* completeAudioResponse resets isProcessingAudioResponse in the task that
\* set it, so between tasks the flag is clear, no response waits in
\* audioResponseQueue and no 100 ms re-processing timer is pending
ResponseQueueUnused ==
  /\ ~isProcessingAudioResponse
  /\ audioResponseQueue = <<>>
  /\ reprocessTimers = 0

\* C29: at most one response-completion timer is pending at any time, the
\* 100 ms timer that re-processes a dequeued response included, and while
\* the pending buffer is empty none is.
C29_OneCompletionTimer ==
  /\ timersPending + reprocessTimers <= 1
  /\ currentAudioResponse.chunks = <<>> => timersPending + reprocessTimers = 0

\* a second fragment has re-armed the timer of the first
C29_TimerRearmed ==
  /\ Len(burst) >= 2
  /\ Len(currentAudioResponse.chunks) >= 2
  /\ timersPending = 1

\* C30: at any time at most one upstream live session is open: a session
\* is opened only after the previous one has been closed.
C30_OneUpstreamSession == openSessions <= 1

\* C31: a reconnect of the upstream session leaves the conversation state
\* unchanged: neither the step in which reconnect() begins (the close of
\* the upstream session with a conversation active) nor the step in which
\* its initSession() settles changes isActive or the turn count.
ReconnectKeepsConversation ==
  ((closes' # closes /\ conversationState.isActive) \/ reconnecting' < reconnecting)
    => conversationState' = conversationState

C31_ReconnectKeepsConversation == [][ReconnectKeepsConversation]_vars

\* C32: after setSpeechRate(r) the upstream session is re-initialised with
\* a speaking rate equal to r clamped to [0.3, 2.0].
C32_SessionUsesClampedRate ==
  (codecOut.done /\ codecIn.op = "speechRate") =>
    codecOut.chunks[2] = Max(MinSpeechRate, Min(MaxSpeechRate, codecIn.rate))

\* C33: the two indexes of SessionManager agree: for every session s of
\* sessions, getSessionBySocketId(s.socketId) is s, and every
\* socketToSession entry points to an existing session.
C33_IndexesAgree ==
  /\ \A sid \in DOMAIN sessions : getSessionBySocketId(sessions[sid].socketId) = sid
  /\ \A sock \in DOMAIN socketToSession :
       socketToSession[sock] # 0 => socketToSession[sock] \in DOMAIN sessions

\* C34: every entry of activeSessions refers to a session that exists in
\* SessionManager: a socket that disconnects, or a session that is ended,
\* leaves no entry behind.
C34_ActiveSessionsExist == \A x \in DOMAIN activeSessions : x \in DOMAIN sessions

(***************************************************************************)
(* SpecLimiter: the rate-limiting middleware of SocketServerLive with the  *)
(* 'connection' and 'disconnect' handlers, for clients of a few addresses. *)
(***************************************************************************)
\* SocketServerLive constructor
maxConnectionsPerIP == 5
connectionWindow == 60000

\* attempts.filter(timestamp => now - timestamp < this.connectionWindow)
recentAttempts(attempts, t) ==
  SelectSeq(attempts, LAMBDA timestamp : t - timestamp < connectionWindow)

\* the attempts accepted so far, of all addresses
AcceptedCount ==
  Cardinality({c \in IPs \X (1..MaxAccepted) : c[2] <= Len(accepted[c[1]])})

\* a client of address ip connects: the middleware drops the old attempts of
\* the address, refuses the socket when maxConnectionsPerIP remain, and
\* records and accepts it otherwise; the 'connection' handler then
\* disconnects the socket, before it sets up any handler, when the address
\* has more than maxConnectionsPerIP sockets (an address with no entry has
\* the empty list)
connect(ip) ==
  /\ AcceptedCount < MaxAccepted
  /\ LET attempts == recentAttempts(connectionAttempts[ip], now)
     IN IF Len(attempts) >= maxConnectionsPerIP
        THEN /\ connectionAttempts' = [connectionAttempts EXCEPT ![ip] = attempts]
             /\ UNCHANGED << accepted, connections >>
        ELSE /\ connectionAttempts' = [connectionAttempts EXCEPT ![ip] = Append(attempts, now)]
             /\ accepted' = [accepted EXCEPT ![ip] = Append(@, now)]
             /\ connections' = IF connections[ip] + 1 > maxConnectionsPerIP
                               THEN connections
                               ELSE [connections EXCEPT ![ip] = @ + 1]
  /\ UNCHANGED << now, codecVars, NotLimiter >>

\* socket 'disconnect' of a socket of address ip: socket.io has removed the
\* socket from io.sockets.sockets when the handler runs; with no socket of
\* the address left the handler deletes the address's entry
disconnect(ip) ==
  /\ connections[ip] > 0
  /\ connections' = [connections EXCEPT ![ip] = @ - 1]
  /\ connectionAttempts' = IF connections[ip] - 1 = 0
                           THEN [connectionAttempts EXCEPT ![ip] = <<>>]
                           ELSE connectionAttempts
  /\ UNCHANGED << now, accepted, codecVars, NotLimiter >>

\* cleanupOldAttempts()
cleanupOldAttempts ==
  /\ connectionAttempts' = [ip \in IPs |-> recentAttempts(connectionAttempts[ip], now)]
  /\ UNCHANGED << now, accepted, connections, codecVars, NotLimiter >>

\* time passes
clockAdvances ==
  /\ now < MaxClock
  /\ now' = now + TimeStep
  /\ UNCHANGED << connectionAttempts, accepted, connections, codecVars, NotLimiter >>

NextLimiter ==
  \/ \E ip \in IPs : connect(ip)
  \/ \E ip \in IPs : disconnect(ip)
  \/ cleanupOldAttempts
  \/ clockAdvances

SpecLimiter == Init /\ [][NextLimiter]_vars

\* C36: of the connection attempts of one address that the middleware
\* accepted, no more than maxConnectionsPerIP lie within any window of
\* connectionWindow ms (a window that holds the most begins at an attempt).
C36_AtMostFivePerWindow ==
  \A ip \in IPs : \A i \in 1..Len(accepted[ip]) :
    Cardinality({j \in i..Len(accepted[ip]) :
                   accepted[ip][j] - accepted[ip][i] < connectionWindow})
      <= maxConnectionsPerIP

\* C35: reconnectAttempts never exceeds maxReconnectAttempts; a call of
\* attemptReconnection (from onerror/onclose or from its retry timer, with a
\* conversation active) at the limit starts no reconnect and ends the
\* conversation; the counter goes down only to 0, and only in a step in which
\* an upstream session opens.
AttemptReconnectionCalled ==
  (closes' > closes \/ retryTimers' < retryTimers) /\ conversationState.isActive

ReconnectCounterSteps ==
  /\ reconnectAttempts <= maxReconnectAttempts
  /\ reconnectAttempts' <= maxReconnectAttempts
  /\ (AttemptReconnectionCalled /\ reconnectAttempts >= maxReconnectAttempts)
       => /\ reconnecting' = reconnecting
          /\ reconnectAttempts' = reconnectAttempts
          /\ ~conversationState'.isActive
  /\ reconnectAttempts' < reconnectAttempts
       => reconnectAttempts' = 0 /\ openSessions' = openSessions + 1

C35_ReconnectAttemptsBounded == [][ReconnectCounterSteps]_vars

\* the limit was reached and a later call of attemptReconnection ended the
\* conversation instead of reconnecting
C35_LimitReachedAndRefused ==
  /\ refusals > 0
  /\ reconnectAttempts = maxReconnectAttempts
  /\ ~conversationState.isActive

====
